---------------------------- MODULE Spec2Model ----------------------------
(***************************************************************************)
(* Model of the pAIr scoring engines (backend/scoring).                    *)
(*                                                                         *)
(* Representation.                                                         *)
(*  - A Python str is a sequence of one-character strings.                 *)
(*  - A Python value read from a JSON document is a record                 *)
(*    [t |-> type tag, s |-> characters, n |-> number]; t is "str",        *)
(*    "none", "int" or "missing" (the key is absent from the dict).        *)
(*  - A float score is an exact integer in a stated unit (hundredths,      *)
(*    millionths); round(x, 1) is computed round-half-even on the exact    *)
(*    value and yields tenths.  Binary floating point error is not         *)
(*    represented: where the exact value lies on a rounding tie or on a    *)
(*    band threshold, the program's float may fall on the other side.      *)
(*  - A call that raises yields exc /= "none".                             *)
(*  - The clock counts half days; a parsed date is midnight of its day.    *)
(***************************************************************************)
EXTENDS Integers, Sequences, FiniteSets, TLC

(***************************************************************************)
(* Python str primitives                                                   *)
(***************************************************************************)

UpperLetters == <<"A","B","C","D","E","F","G","H","I","J","K","L","M",
                  "N","O","P","Q","R","S","T","U","V","W","X","Y","Z">>

LowerLetters == <<"a","b","c","d","e","f","g","h","i","j","k","l","m",
                  "n","o","p","q","r","s","t","u","v","w","x","y","z">>

DigitChars == <<"0","1","2","3","4","5","6","7","8","9">>

IsDigit(c) == \E i \in 1..Len(DigitChars) : DigitChars[i] = c

DigitValue(c) == (CHOOSE i \in 1..Len(DigitChars) : DigitChars[i] = c) - 1

IsSpace(c) == c = " "

LowerChar(c) ==
    IF \E i \in 1..Len(UpperLetters) : UpperLetters[i] = c
    THEN LowerLetters[CHOOSE i \in 1..Len(UpperLetters) : UpperLetters[i] = c]
    ELSE c

UpperChar(c) ==
    IF \E i \in 1..Len(LowerLetters) : LowerLetters[i] = c
    THEN UpperLetters[CHOOSE i \in 1..Len(LowerLetters) : LowerLetters[i] = c]
    ELSE c

\* str.lower()
Lower(s) == [i \in 1..Len(s) |-> LowerChar(s[i])]

\* str.upper()
Upper(s) == [i \in 1..Len(s) |-> UpperChar(s[i])]

\* s[i:].startswith(w), i counted from 1
PrefixAt(s, i, w) ==
    /\ i >= 1
    /\ i + Len(w) - 1 <= Len(s)
    /\ \A k \in 1..Len(w) : s[i + k - 1] = w[k]

\* "sub in s"; the empty string is in every string
Contains(sub, s) == \E i \in 1..(Len(s) - Len(sub) + 1) : PrefixAt(s, i, sub)

\* any(w in s for w in words)
ContainsAny(words, s) == \E w \in words : Contains(w, s)

\* str.replace(c, "") for a one-character c
RECURSIVE RemoveChar(_, _)
RemoveChar(s, c) ==
    IF s = <<>> THEN <<>>
    ELSE IF Head(s) = c THEN RemoveChar(Tail(s), c)
    ELSE <<Head(s)>> \o RemoveChar(Tail(s), c)

\* str.replace(a, b) for one-character a and b
ReplaceChar(s, a, b) == [i \in 1..Len(s) |-> IF s[i] = a THEN b ELSE s[i]]

\* str.strip()
RECURSIVE LStrip(_)
LStrip(s) == IF s # <<>> /\ IsSpace(Head(s)) THEN LStrip(Tail(s)) ELSE s

RECURSIVE RStrip(_)
RStrip(s) ==
    IF s # <<>> /\ IsSpace(s[Len(s)]) THEN RStrip(SubSeq(s, 1, Len(s) - 1)) ELSE s

Strip(s) == RStrip(LStrip(s))

\* index of the first character at or after i that is not white space
RECURSIVE SkipSpace(_, _)
SkipSpace(s, i) ==
    IF i <= Len(s) /\ IsSpace(s[i]) THEN SkipSpace(s, i + 1) ELSE i

\* index of the first white-space character at or after i (Len(s)+1 if none)
RECURSIVE WordEnd(_, _)
WordEnd(s, i) ==
    IF i <= Len(s) /\ ~IsSpace(s[i]) THEN WordEnd(s, i + 1) ELSE i

\* str.split(): the maximal runs of non-white-space characters, in order
RECURSIVE SplitFrom(_, _)
SplitFrom(s, i) ==
    LET b == SkipSpace(s, i)
        e == WordEnd(s, b)
    IN  IF b > Len(s) THEN <<>>
        ELSE <<SubSeq(s, b, e - 1)>> \o SplitFrom(s, e)

Split(s) == SplitFrom(s, 1)

Range(f) == {f[i] : i \in DOMAIN f}

Max(a, b) == IF a >= b THEN a ELSE b

Min(a, b) == IF a <= b THEN a ELSE b

SetMax(S) == CHOOSE x \in S : \A y \in S : y <= x

(***************************************************************************)
(* Python values and dict.get                                              *)
(***************************************************************************)

PyStr(s) == [t |-> "str", s |-> s, n |-> 0]

PyNone == [t |-> "none", s |-> <<>>, n |-> 0]

\* a number (True is 1, False is 0)
PyNum(n) == [t |-> "int", s |-> <<>>, n |-> n]

\* the key is not in the dict
Missing == [t |-> "missing", s |-> <<>>, n |-> 0]

\* d.get(key, default), given d[key] or Missing
Get(v, default) == IF v.t = "missing" THEN default ELSE v

\* bool(v): None, 0 and the empty string are falsy
Truthy(v) == (v.t = "int" /\ v.n # 0) \/ (v.t = "str" /\ v.s # <<>>)

(***************************************************************************)
(* float() of the text a [\d.]+ group matched                              *)
(***************************************************************************)

IsNumChar(c) == IsDigit(c) \/ c = "."

\* last index of the maximal run of [\d.] characters starting at i
RECURSIVE RunEnd(_, _)
RunEnd(s, i) ==
    IF i <= Len(s) /\ IsNumChar(s[i]) THEN RunEnd(s, i + 1) ELSE i - 1

RECURSIVE DigitsValue(_)
DigitsValue(g) ==
    IF g = <<>> THEN 0
    ELSE 10 * DigitsValue(SubSeq(g, 1, Len(g) - 1)) + DigitValue(g[Len(g)])

RECURSIVE Pow10(_)
Pow10(n) == IF n = 0 THEN 1 ELSE 10 * Pow10(n - 1)

\* float(g) for g made of digits and dots: a ValueError unless g has a digit
\* and at most one dot; the value is num / den
Float(g) ==
    LET dots == {i \in 1..Len(g) : g[i] = "."}
    IN  IF Cardinality(dots) > 1 \/ Cardinality(dots) = Len(g)
        THEN [exc |-> "ValueError", num |-> 0, den |-> 1]
        ELSE [exc |-> "none",
              num |-> DigitsValue(RemoveChar(g, ".")),
              den |-> IF dots = {} THEN 1
                      ELSE Pow10(Len(g) - (CHOOSE i \in dots : TRUE))]

Times(f, k) == [f EXCEPT !.num = f.num * k]

Zero == [exc |-> "none", num |-> 0, den |-> 1]

(***************************************************************************)
(* ComplianceRiskScorer._parse_penalty_amount                              *)
(***************************************************************************)

CRORE == 10000000

LAKH == 100000

THOUSAND == 1000

CroreUnits == { <<"c","r","o","r","e">>, <<"c","r">> }

LakhUnits == { <<"l","a","k","h">>, <<"l","a","c">>, <<"l">> }

ThousandUnits == { <<"t","h","o","u","s","a","n","d">>, <<"k">> }

\* re.search(r"([\d.]+)\s*(u1|u2|...)", s): the start of the leftmost match, 0
\* if there is none.  A match at i takes the whole run of [\d.] from i, then
\* all the white space, then a unit.
SearchNumberUnit(s, units) ==
    LET hits == {i \in 1..Len(s) :
                    /\ IsNumChar(s[i])
                    /\ \E u \in units :
                          PrefixAt(s, SkipSpace(s, RunEnd(s, i) + 1), u)}
    IN  IF hits = {} THEN 0 ELSE CHOOSE i \in hits : \A j \in hits : i <= j

\* re.search(r"rs\.?\s*([\d.]+)", s) tried at p: the start of group 1, 0 if no
\* match at p.  The optional dot is taken when a number follows it, and is
\* otherwise left to the group.
RsGroupStart(s, p) ==
    LET withDot == SkipSpace(s, p + 3)
        noDot == SkipSpace(s, p + 2)
    IN  IF ~PrefixAt(s, p, <<"r","s">>) THEN 0
        ELSE IF /\ PrefixAt(s, p + 2, <<".">>)
                /\ withDot <= Len(s) /\ IsNumChar(s[withDot]) THEN withDot
        ELSE IF noDot <= Len(s) /\ IsNumChar(s[noDot]) THEN noDot
        ELSE 0

SearchRs(s) ==
    LET hits == {p \in 1..Len(s) : RsGroupStart(s, p) # 0}
    IN  IF hits = {} THEN 0
        ELSE RsGroupStart(s, CHOOSE p \in hits : \A q \in hits : p <= q)

\* re.search(r"([\d.]+)", s): the start of the leftmost run, 0 if none
SearchNumber(s) ==
    LET hits == {i \in 1..Len(s) : IsNumChar(s[i])}
    IN  IF hits = {} THEN 0 ELSE CHOOSE i \in hits : \A j \in hits : i <= j

Group(s, i) == SubSeq(s, i, RunEnd(s, i))

\* _parse_penalty_amount(s) for a Python value s
ParsePenaltyAmount(v) ==
    IF ~Truthy(v) THEN Zero
    ELSE IF v.t # "str" THEN [exc |-> "AttributeError", num |-> 0, den |-> 1]
    ELSE
      LET s == RemoveChar(Lower(v.s), ",")
          cr == SearchNumberUnit(s, CroreUnits)
          lk == SearchNumberUnit(s, LakhUnits)
          th == SearchNumberUnit(s, ThousandUnits)
          rs == SearchRs(s)
          nb == SearchNumber(s)
      IN  IF cr # 0 THEN Times(Float(Group(s, cr)), CRORE)
          ELSE IF lk # 0 THEN Times(Float(Group(s, lk)), LAKH)
          ELSE IF th # 0 THEN Times(Float(Group(s, th)), THOUSAND)
          ELSE IF rs # 0 THEN Float(Group(s, rs))
          ELSE IF nb # 0 THEN Float(Group(s, nb))
          ELSE Zero

\* parsed >= n
AtLeast(f, n) == f.num >= n * f.den

\* _penalty_amount_to_score(amount_str): exc and the score
PenaltyAmountToScore(v) ==
    LET Bucket(parsed) ==
            IF parsed.exc # "none" THEN [exc |-> parsed.exc, val |-> 0]
            ELSE [exc |-> "none",
                  val |-> IF parsed.num <= 0 THEN 30
                          ELSE IF AtLeast(parsed, 1000000) THEN 100
                          ELSE IF AtLeast(parsed, 500000) THEN 85
                          ELSE IF AtLeast(parsed, 100000) THEN 70
                          ELSE IF AtLeast(parsed, 50000) THEN 55
                          ELSE IF AtLeast(parsed, 10000) THEN 40
                          ELSE 25]
    IN  Bucket(ParsePenaltyAmount(v))

(***************************************************************************)
(* datetime.strptime for the five formats _score_deadline tries            *)
(***************************************************************************)

MonthNames == << <<"j","a","n","u","a","r","y">>, <<"f","e","b","r","u","a","r","y">>, <<"m","a","r","c","h">>, <<"a","p","r","i","l">>, <<"m","a","y">>, <<"j","u","n","e">>,
                 <<"j","u","l","y">>, <<"a","u","g","u","s","t">>, <<"s","e","p","t","e","m","b","e","r">>, <<"o","c","t","o","b","e","r">>, <<"n","o","v","e","m","b","e","r">>,
                 <<"d","e","c","e","m","b","e","r">> >>

\* The formats, as sequences of directives ("Y", "m", "d", "B"), white space
\* ("ws", which strptime matches as \s+) and literal characters.
DateFormats ==
    << <<"Y", "-", "m", "-", "d">>,
       <<"d", "/", "m", "/", "Y">>,
       <<"d", "-", "m", "-", "Y">>,
       <<"B", "ws", "d", ",", "ws", "Y">>,
       <<"d", "ws", "B", "ws", "Y">> >>

IsLeap(y) == (y % 4 = 0 /\ y % 100 # 0) \/ y % 400 = 0

DaysInMonth(y, m) ==
    IF m = 2 THEN (IF IsLeap(y) THEN 29 ELSE 28)
    ELSE IF m \in {4, 6, 9, 11} THEN 30 ELSE 31

\* days from 1970-01-01 to the civil date y-m-d (proleptic Gregorian)
DaysFromCivil(y, m, d) ==
    LET yy == IF m <= 2 THEN y - 1 ELSE y
        era == yy \div 400
        yoe == yy - era * 400
        mp == (m + 9) % 12
        doy == (153 * mp + 2) \div 5 + d - 1
        doe == yoe * 365 + yoe \div 4 - yoe \div 100 + doy
    IN  era * 146097 + doe - 719468

DigitsAt(s, i, n) == i + n - 1 <= Len(s) /\ \A k \in i..(i + n - 1) : IsDigit(s[k])

NumAt(s, i, n) == DigitsValue(SubSeq(s, i, i + n - 1))

\* %d is 3[0-1]|[1-2]\d|0[1-9]|[1-9] and %m is 1[0-2]|0[1-9]|[1-9]: the
\* number of characters the directive takes at i, 0 if it does not match
FieldLen(s, i, hi) ==
    IF DigitsAt(s, i, 2) /\ NumAt(s, i, 2) >= 1 /\ NumAt(s, i, 2) <= hi THEN 2
    ELSE IF DigitsAt(s, i, 1) /\ NumAt(s, i, 1) >= 1 THEN 1
    ELSE 0

\* %B: the month whose name starts at i (ignoring case), 0 if none
MonthAt(s, i) ==
    LET hits == {m \in 1..12 : PrefixAt(Lower(s), i, MonthNames[m])}
    IN  IF hits = {} THEN 0 ELSE CHOOSE m \in hits : TRUE

NoDate == [ok |-> FALSE, Y |-> 0, m |-> 0, d |-> 0]

\* match directives k.. of fmt against s from i, with the fields found so far
RECURSIVE MatchFormat(_, _, _, _, _)
MatchFormat(fmt, k, s, i, acc) ==
    IF k > Len(fmt) THEN (IF i = Len(s) + 1 THEN acc ELSE NoDate)
    ELSE LET tok == fmt[k]
         IN  IF tok = "Y" THEN
                 IF DigitsAt(s, i, 4)
                 THEN MatchFormat(fmt, k + 1, s, i + 4, [acc EXCEPT !.Y = NumAt(s, i, 4)])
                 ELSE NoDate
             ELSE IF tok = "m" THEN
                 LET n == FieldLen(s, i, 12)
                 IN  IF n = 0 THEN NoDate
                     ELSE MatchFormat(fmt, k + 1, s, i + n, [acc EXCEPT !.m = NumAt(s, i, n)])
             ELSE IF tok = "d" THEN
                 LET n == FieldLen(s, i, 31)
                 IN  IF n = 0 THEN NoDate
                     ELSE MatchFormat(fmt, k + 1, s, i + n, [acc EXCEPT !.d = NumAt(s, i, n)])
             ELSE IF tok = "B" THEN
                 LET m == MonthAt(s, i)
                 IN  IF m = 0 THEN NoDate
                     ELSE MatchFormat(fmt, k + 1, s, i + Len(MonthNames[m]), [acc EXCEPT !.m = m])
             ELSE IF tok = "ws" THEN
                 IF i <= Len(s) /\ IsSpace(s[i])
                 THEN MatchFormat(fmt, k + 1, s, SkipSpace(s, i), acc)
                 ELSE NoDate
             ELSE IF i <= Len(s) /\ s[i] = tok
                 THEN MatchFormat(fmt, k + 1, s, i + 1, acc)
                 ELSE NoDate

\* datetime.strptime(s, fmt): ok is FALSE where strptime raises ValueError
\* (no match, text left over, year 0, or a day the month does not have)
Strptime(s, fmt) ==
    LET Valid(r) == IF r.ok /\ r.Y >= 1 /\ r.d <= DaysInMonth(r.Y, r.m) THEN r ELSE NoDate
    IN  Valid(MatchFormat(fmt, 1, s, 1, [ok |-> TRUE, Y |-> 0, m |-> 0, d |-> 0]))

(***************************************************************************)
(* The clock: datetime.utcnow() is ClockEpochDay plus now half days        *)
(***************************************************************************)

HalfDaysPerDay == 2

ClockEpochDay == DaysFromCivil(2026, 1, 1)

\* (dt - datetime.utcnow()).days for dt at midnight of day ordinal ord:
\* timedelta.days is the floor of the difference in days
DeltaDays(ord, now) ==
    LET diff == HalfDaysPerDay * (ord - ClockEpochDay) - now
    IN  IF diff >= 0 THEN diff \div HalfDaysPerDay
        ELSE -((-diff + HalfDaysPerDay - 1) \div HalfDaysPerDay)

(***************************************************************************)
(* ComplianceRiskScorer._score_deadline                                    *)
(***************************************************************************)

\* days_remaining is an int or None
NoDays == [known |-> FALSE, n |-> 0]

Days(n) == [known |-> TRUE, n |-> n]

DeadlineBuckets(delta) ==
    IF delta < 0 THEN 100
    ELSE IF delta <= 7 THEN 95
    ELSE IF delta <= 14 THEN 85
    ELSE IF delta <= 30 THEN 70
    ELSE IF delta <= 60 THEN 50
    ELSE IF delta <= 90 THEN 35
    ELSE IF delta <= 180 THEN 20
    ELSE 10

DeadlineKeywords(kw) ==
    IF ContainsAny({ <<"i","m","m","e","d","i","a","t","e">>, <<"u","r","g","e","n","t">>, <<"o","v","e","r","d","u","e">>, <<"a","s","a","p">> }, kw)
    THEN [exc |-> "none", score |-> 95, days |-> Days(0), path |-> "keyword"]
    ELSE IF ContainsAny({ <<"w","i","t","h","i","n"," ","7">>, <<"1"," ","w","e","e","k">> }, kw)
    THEN [exc |-> "none", score |-> 85, days |-> Days(7), path |-> "keyword"]
    ELSE IF ContainsAny({ <<"w","i","t","h","i","n"," ","3","0">>, <<"1"," ","m","o","n","t","h">> }, kw)
    THEN [exc |-> "none", score |-> 65, days |-> Days(30), path |-> "keyword"]
    ELSE IF ContainsAny({ <<"w","i","t","h","i","n"," ","9","0">>, <<"3"," ","m","o","n","t","h">>, <<"q","u","a","r","t","e","r">> }, kw)
    THEN [exc |-> "none", score |-> 40, days |-> Days(90), path |-> "keyword"]
    ELSE IF ContainsAny({ <<"a","n","n","u","a","l">>, <<"y","e","a","r","l","y">>, <<"b","e","f","o","r","e"," ","m","a","r","c","h">> }, kw)
    THEN [exc |-> "none", score |-> 25, days |-> Days(180), path |-> "keyword"]
    ELSE [exc |-> "none", score |-> 40, days |-> NoDays, path |-> "default"]

\* _score_deadline(deadline_str) called when the clock reads now.  path tells
\* which return statement produced the result.
ScoreDeadline(v, now) ==
    IF ~Truthy(v)
    THEN [exc |-> "none", score |-> 40, days |-> NoDays, path |-> "default"]
    ELSE IF v.t # "str"
    THEN [exc |-> "AttributeError", score |-> 0, days |-> NoDays, path |-> "raise"]
    ELSE
      LET \* the first format that parses decides
          FirstFit(parses) ==
              LET fits == {k \in 1..Len(DateFormats) : parses[k].ok}
              IN  IF fits = {} THEN NoDate
                  ELSE parses[CHOOSE k \in fits : \A j \in fits : k <= j]
          Bucket(delta) ==
              [exc |-> "none", score |-> DeadlineBuckets(delta),
               days |-> Days(delta), path |-> "date"]
          Decide(dt) ==
              IF dt.ok THEN Bucket(DeltaDays(DaysFromCivil(dt.Y, dt.m, dt.d), now))
              ELSE DeadlineKeywords(Lower(v.s))
      IN  Decide(FirstFit([k \in 1..Len(DateFormats) |-> Strptime(Strip(v.s), DateFormats[k])]))

(***************************************************************************)
(* Factor normalisers                                                      *)
(***************************************************************************)

\* the Severity enum in definition order, with SEVERITY_SCORES
SeverityEnum ==
    << << <<"C","R","I","M","I","N","A","L">>, 100 >>, << <<"S","U","S","P","E","N","S","I","O","N">>, 90 >>, << <<"H","E","A","V","Y","_","F","I","N","E">>, 75 >>,
       << <<"M","O","D","E","R","A","T","E","_","F","I","N","E">>, 55 >>, << <<"W","A","R","N","I","N","G">>, 35 >>, << <<"A","D","V","I","S","O","R","Y">>, 15 >> >>

\* the Frequency enum in definition order, with FREQUENCY_SCORES
FrequencyEnum ==
    << << <<"D","A","I","L","Y">>, 100 >>, << <<"W","E","E","K","L","Y">>, 85 >>, << <<"M","O","N","T","H","L","Y">>, 70 >>,
       << <<"Q","U","A","R","T","E","R","L","Y">>, 50 >>, << <<"A","N","N","U","A","L","L","Y">>, 30 >>, << <<"O","N","E","_","T","I","M","E">>, 10 >> >>

\* for e in Enum: if e.value in raw: return SCORES[e]  -- 0 if the loop ends
FirstEnumIn(enum, raw) ==
    LET hits == {k \in 1..Len(enum) : Contains(enum[k][1], raw)}
    IN  IF hits = {} THEN 0
        ELSE enum[CHOOSE k \in hits : \A j \in hits : k <= j][2]

\* _normalize_severity(raw)
NormalizeSeverity(raw) ==
    LET kw == Lower(raw)
    IN  IF FirstEnumIn(SeverityEnum, raw) # 0 THEN FirstEnumIn(SeverityEnum, raw)
        ELSE IF ContainsAny({ <<"i","m","p","r","i","s","o","n">>, <<"c","r","i","m","i","n","a","l">>, <<"j","a","i","l">> }, kw) THEN 100
        ELSE IF ContainsAny({ <<"s","u","s","p","e","n","d">>, <<"r","e","v","o","k">>, <<"c","a","n","c","e","l">> }, kw) THEN 90
        ELSE IF ContainsAny({ <<"h","e","a","v","y">>, <<"l","a","k","h">>, <<"c","r","o","r","e">>, <<"s","i","g","n","i","f","i","c">> }, kw) THEN 75
        ELSE IF ContainsAny({ <<"f","i","n","e">>, <<"p","e","n","a","l">> }, kw) THEN 55
        ELSE IF ContainsAny({ <<"w","a","r","n">>, <<"n","o","t","i","c","e">> }, kw) THEN 35
        ELSE 25

\* _normalize_frequency(raw)
NormalizeFrequency(raw) ==
    LET kw == Lower(raw)
    IN  IF FirstEnumIn(FrequencyEnum, raw) # 0 THEN FirstEnumIn(FrequencyEnum, raw)
        ELSE IF ContainsAny({ <<"d","a","i","l","y">>, <<"c","o","n","t","i","n","u","o","u","s">> }, kw) THEN 100
        ELSE IF Contains(<<"w","e","e","k">>, kw) THEN 85
        ELSE IF Contains(<<"m","o","n","t","h">>, kw) THEN 70
        ELSE IF Contains(<<"q","u","a","r","t","e","r">>, kw) THEN 50
        ELSE IF ContainsAny({ <<"a","n","n","u","a","l">>, <<"y","e","a","r">> }, kw) THEN 30
        ELSE 10

\* _enforcement_probability(severity_raw), in hundredths
EnforcementProbability(raw) ==
    LET kw == Lower(raw)
    IN  IF ContainsAny({ <<"c","r","i","m","i","n","a","l">>, <<"i","m","p","r","i","s","o","n">>, <<"j","a","i","l">> }, kw) THEN 90
        ELSE IF ContainsAny({ <<"s","u","s","p","e","n","d">>, <<"r","e","v","o","k">>, <<"c","a","n","c","e","l">> }, kw) THEN 80
        ELSE IF ContainsAny({ <<"h","e","a","v","y">>, <<"s","i","g","n","i","f","i","c">>, <<"l","a","k","h">>, <<"c","r","o","r","e">> }, kw) THEN 70
        ELSE IF ContainsAny({ <<"f","i","n","e">>, <<"p","e","n","a","l">> }, kw) THEN 55
        ELSE IF ContainsAny({ <<"w","a","r","n">>, <<"n","o","t","i","c","e">> }, kw) THEN 30
        ELSE 40

(***************************************************************************)
(* Sector and regional multipliers, in hundredths                          *)
(***************************************************************************)

\* a business profile is a dict; each key the engines read holds a Python
\* value or is Missing
NoProfile ==
    [sector |-> Missing, business_type |-> Missing, state |-> Missing,
     location |-> Missing, enterprise_type |-> Missing, owner_category |-> Missing,
     is_new_unit |-> Missing, has_udyam |-> Missing, loan_amount |-> Missing,
     project_cost |-> Missing, annual_turnover |-> Missing, location_type |-> Missing]

\* _get_sector_multiplier(profile), with SECTOR_RISK_MULTIPLIERS
GetSectorMultiplier(profile) ==
    LET v == Get(profile.sector, Get(profile.business_type, PyStr(<<>>)))
        sector == Lower(v.s)
    IN  IF v.t # "str" THEN [exc |-> "AttributeError", val |-> 0]
        ELSE [exc |-> "none", val |->
              IF ContainsAny({ <<"m","a","n","u","f","a","c","t","u","r">>, <<"f","a","c","t","o","r","y">>, <<"p","r","o","d","u","c","t","i","o","n">> }, sector) THEN 125
              ELSE IF ContainsAny({ <<"s","e","r","v","i","c","e">>, <<"c","o","n","s","u","l","t">>, <<"i","t">>, <<"s","o","f","t","w","a","r","e">> }, sector) THEN 100
              ELSE IF ContainsAny({ <<"t","r","a","d">>, <<"r","e","t","a","i","l">>, <<"w","h","o","l","e","s","a","l","e">> }, sector) THEN 110
              ELSE IF ContainsAny({ <<"c","r","a","f","t">>, <<"h","a","n","d","l","o","o","m">>, <<"a","r","t","i","s","a","n">> }, sector) THEN 90
              ELSE 105]

\* REGIONAL_STRICTNESS in insertion order
RegionalStrictness ==
    << << <<"m","a","h","a","r","a","s","h","t","r","a">>, 120 >>, << <<"k","a","r","n","a","t","a","k","a">>, 115 >>, << <<"t","a","m","i","l","_","n","a","d","u">>, 110 >>,
       << <<"t","e","l","a","n","g","a","n","a">>, 110 >>, << <<"d","e","l","h","i">>, 125 >>, << <<"g","u","j","a","r","a","t">>, 105 >>,
       << <<"u","t","t","a","r","_","p","r","a","d","e","s","h">>, 90 >>, << <<"w","e","s","t","_","b","e","n","g","a","l">>, 95 >>, << <<"r","a","j","a","s","t","h","a","n">>, 90 >>,
       << <<"d","e","f","a","u","l","t">>, 100 >> >>

\* _get_regional_multiplier(profile): an exact key, else the first key that
\* contains the state or is contained in it, else "default"
GetRegionalMultiplier(profile) ==
    LET v == Get(profile.state, Get(profile.location, PyStr(<<>>)))
        state == ReplaceChar(Lower(v.s), " ", "_")
        exact == {k \in 1..Len(RegionalStrictness) : RegionalStrictness[k][1] = state}
        loose == {k \in 1..Len(RegionalStrictness) :
                    \/ Contains(RegionalStrictness[k][1], state)
                    \/ Contains(state, RegionalStrictness[k][1])}
    IN  IF v.t # "str" THEN [exc |-> "AttributeError", val |-> 0]
        ELSE [exc |-> "none", val |->
              IF exact # {} THEN RegionalStrictness[CHOOSE k \in exact : TRUE][2]
              ELSE IF loose # {}
                   THEN RegionalStrictness[CHOOSE k \in loose : \A j \in loose : k <= j][2]
              ELSE 100]

(***************************************************************************)
(* ScoringConfig and ComplianceRiskScorer.__init__                         *)
(***************************************************************************)

\* ScoringConfig: the weights in hundredths, the band thresholds as written
DefaultScoring ==
    [w_severity |-> 35, w_penalty |-> 25, w_deadline |-> 25, w_frequency |-> 15,
     risk_critical |-> 80, risk_high |-> 60, risk_medium |-> 40, risk_low |-> 20]

\* Band with exclusive thresholds: a score on a threshold gets the lower band
BandExclusive(w, num, den) ==
    IF num > w.risk_critical * den THEN "CRITICAL"
    ELSE IF num > w.risk_high * den THEN "HIGH"
    ELSE IF num > w.risk_medium * den THEN "MEDIUM"
    ELSE IF num > w.risk_low * den THEN "LOW"
    ELSE "MINIMAL"

\* _band(score) for score = num / den
Band(w, num, den) ==
    IF num >= w.risk_critical * den THEN "CRITICAL"
    ELSE IF num >= w.risk_high * den THEN "HIGH"
    ELSE IF num >= w.risk_medium * den THEN "MEDIUM"
    ELSE IF num >= w.risk_low * den THEN "LOW"
    ELSE "MINIMAL"

\* round(num / den, 1) in tenths, ties to the even tenth
RoundTenths(num, den) ==
    LET q == (10 * num) \div den
        r == (10 * num) % den
    IN  IF 2 * r > den \/ (2 * r = den /\ q % 2 = 1) THEN q + 1 ELSE q

(***************************************************************************)
(* Penalty lookup                                                          *)
(***************************************************************************)

\* [w.lower() for w in name.split() if len(w) > 3]
LongWords(s) == SelectSeq(Split(Lower(s)), LAMBDA w : Len(w) > 3)

\* one step of _build_penalty_map: pmap[word] = max(pmap.get(word, 0), score)
\* for every word of the violation longer than 3 characters
PutWords(pmap, words, score) ==
    [x \in (DOMAIN pmap) \cup words |->
        IF x \in words
        THEN Max(IF x \in DOMAIN pmap THEN pmap[x] ELSE 0, score)
        ELSE pmap[x]]

\* _build_penalty_map(penalties) from entry k on; a penalty that is not a
\* dict, or whose violation is not a str, raises AttributeError, and an
\* amount float() rejects raises ValueError
RECURSIVE BuildPenaltyMapFrom(_, _, _)
BuildPenaltyMapFrom(penalties, k, pmap) ==
    IF k > Len(penalties) THEN [exc |-> "none", map |-> pmap]
    ELSE LET p == penalties[k]
             Put(violation, score) ==
                 IF p.kind # "dict" \/ violation.t # "str"
                 THEN [exc |-> "AttributeError", map |-> pmap]
                 ELSE IF score.exc # "none" THEN [exc |-> score.exc, map |-> pmap]
                 ELSE BuildPenaltyMapFrom(penalties, k + 1,
                          PutWords(pmap, Range(LongWords(violation.s)), score.val))
         IN  Put(Get(p.violation, PyStr(<<>>)),
                 PenaltyAmountToScore(Get(p.penalty_amount, PyStr(<<>>))))

BuildPenaltyMap(penalties) == BuildPenaltyMapFrom(penalties, 1, <<>>)

\* MatchPenaltyScore that takes a word of the name found inside a word of the
\* map for a match, whatever its length
MatchPenaltyScoreSubstring(name, pmap) ==
    LET scores == {pmap[x] : x \in {k \in DOMAIN pmap :
                                       \E wd \in Range(Split(Lower(name))) : Contains(wd, k)}}
    IN  IF scores = {} THEN 30 ELSE SetMax(scores)

\* _match_penalty_score(obl_name, penalty_map) for a str obl_name
MatchPenaltyScore(name, pmap) ==
    LET scores == {pmap[x] : x \in Range(LongWords(name)) \cap DOMAIN pmap}
    IN  IF DOMAIN pmap = {} \/ scores = {} THEN 30 ELSE SetMax(scores)

\* _extract_raw_penalty_inr(obl_name, penalty_map) for a str obl_name
ExtractRawPenaltyInr(name, pmap) ==
    LET Amount(max_score) ==
            IF max_score >= 100 THEN 1000000
            ELSE IF max_score >= 85 THEN 500000
            ELSE IF max_score >= 70 THEN 100000
            ELSE IF max_score >= 55 THEN 50000
            ELSE IF max_score >= 40 THEN 10000
            ELSE 5000
    IN  Amount(SetMax({0} \cup {IF x \in DOMAIN pmap THEN pmap[x] ELSE 0 :
                                   x \in Range(LongWords(name))}))

(***************************************************************************)
(* ObligationRisk                                                          *)
(*   the four factor scores are whole numbers; weighted_score is in tenths *)
(*   (it is round(adjusted, 1)); remediation_hint names the template used. *)
(*   urgency_decay_score and discounted_penalty_inr are not represented.   *)
(***************************************************************************)

NoRisk ==
    [obligation_name |-> <<>>, severity_score |-> 0, penalty_score |-> 0,
     deadline_score |-> 0, frequency_score |-> 0, weighted_score |-> 0,
     risk_band |-> "MINIMAL", days_remaining |-> NoDays,
     remediation_hint |-> "", expected_penalty_inr |-> 0]

MICRO == 1000000

MULTIPLIER_CAP == 14000

\* Adjusted without the outer min(100, ...): the composite is not clamped
AdjustedUnclamped(weighted, sector_mult, regional_mult) ==
    weighted * Min(sector_mult * regional_mult, MULTIPLIER_CAP)

\* WeightedSum that leaves the frequency term out
WeightedSumNoFrequency(w, severity, penalty, deadline, frequency) ==
    w.w_severity * severity + w.w_penalty * penalty + w.w_deadline * deadline

\* the weighted composite, in hundredths
WeightedSum(w, severity, penalty, deadline, frequency) ==
    w.w_severity * severity + w.w_penalty * penalty
        + w.w_deadline * deadline + w.w_frequency * frequency

\* min(100, weighted * min(sector_mult * regional_mult, 1.4)), in millionths
Adjusted(weighted, sector_mult, regional_mult) ==
    Min(100 * MICRO, weighted * Min(sector_mult * regional_mult, MULTIPLIER_CAP))

\* _score_obligation(obl, penalty_map, sector_mult, regional_mult) called when
\* the clock reads now, by a scorer holding the configuration w
ScoreObligation(w, obl, pmap, sector_mult, regional_mult, now) ==
    LET name == Get(obl.obligation, PyStr(<<"U","n","k","n","o","w","n">>))
        sev == Get(obl.severity_if_ignored, PyStr(<<"W","A","R","N","I","N","G">>))
        freq == Get(obl.frequency, PyStr(<<"O","N","E","_","T","I","M","E">>))
        Risk(severity_score, penalty_score, dl, frequency_score, adjusted, band, probability) ==
            [obligation_name |-> name.s,
             severity_score |-> severity_score,
             penalty_score |-> penalty_score,
             deadline_score |-> dl.score,
             frequency_score |-> frequency_score,
             weighted_score |-> RoundTenths(adjusted, MICRO),
             risk_band |-> band,
             days_remaining |-> dl.days,
             remediation_hint |-> band,
             expected_penalty_inr |->
                 (ExtractRawPenaltyInr(name.s, pmap) * probability) \div 100]
        Banded(severity_score, penalty_score, dl, frequency_score, adjusted, probability) ==
            Risk(severity_score, penalty_score, dl, frequency_score, adjusted,
                 Band(w, adjusted, MICRO), probability)
        Weighted(severity_score, penalty_score, dl, frequency_score, probability) ==
            Banded(severity_score, penalty_score, dl, frequency_score,
                   Adjusted(WeightedSum(w, severity_score, penalty_score,
                                        dl.score, frequency_score),
                            sector_mult, regional_mult),
                   probability)
        Scored(severity_raw, dl) ==
            Weighted(NormalizeSeverity(severity_raw), MatchPenaltyScore(name.s, pmap),
                     dl, NormalizeFrequency(Upper(freq.s)),
                     EnforcementProbability(severity_raw))
        Checked(dl) ==
            IF obl.kind # "dict" \/ sev.t # "str"
            THEN [exc |-> "AttributeError", risk |-> NoRisk]
            ELSE IF DOMAIN pmap # {} /\ name.t # "str"
            THEN [exc |-> "AttributeError", risk |-> NoRisk]
            ELSE IF dl.exc # "none" THEN [exc |-> dl.exc, risk |-> NoRisk]
            ELSE IF freq.t # "str" \/ name.t # "str"
            THEN [exc |-> "AttributeError", risk |-> NoRisk]
            ELSE [exc |-> "none", risk |-> Scored(Upper(sev.s), dl)]
    IN  Checked(ScoreDeadline(Get(obl.deadline, PyStr(<<>>)), now))

\* a proxy that knows only the HIGH priority
PriorityProxyHighOnly(v) ==
    IF v = PyStr(<<"H","I","G","H">>) THEN 75 ELSE 45

\* priority_map.get(action.get("priority", "MEDIUM"), 45)
PriorityProxy(v) ==
    IF v = PyStr(<<"H","I","G","H">>) THEN 75
    ELSE IF v = PyStr(<<"L","O","W">>) THEN 20
    ELSE 45

\* _score_action_as_obligation(action) for a dict action with a str name
ScoreActionAsObligation(w, act) ==
    LET sev == PriorityProxy(Get(act.priority, PyStr(<<"M","E","D","I","U","M">>)))
    IN  [obligation_name |-> Get(act.action, PyStr(<<"A","c","t","i","o","n">>)).s,
         severity_score |-> sev,
         penalty_score |-> 30,
         deadline_score |-> 40,
         frequency_score |-> 20,
         weighted_score |-> RoundTenths(WeightedSum(w, sev, 30, 40, 20), 100),
         risk_band |-> Band(w, 5 * sev + 200, 10),
         days_remaining |-> NoDays,
         remediation_hint |-> "REVIEW",
         expected_penalty_inr |-> 0]

(***************************************************************************)
(* Aggregation                                                             *)
(***************************************************************************)

\* list.sort(key=weighted_score, reverse=True): stable, so equal scores keep
\* their order
RECURSIVE InsertByScore(_, _)
InsertByScore(sorted, r) ==
    IF sorted = <<>> THEN <<r>>
    ELSE IF Head(sorted).weighted_score >= r.weighted_score
         THEN <<Head(sorted)>> \o InsertByScore(Tail(sorted), r)
         ELSE <<r>> \o sorted

RECURSIVE SortByScore(_)
SortByScore(risks) ==
    IF risks = <<>> THEN <<>>
    ELSE InsertByScore(SortByScore(SubSeq(risks, 1, Len(risks) - 1)), risks[Len(risks)])

\* the risks left in the order they were scored
Unsorted(risks) == risks

\* obligation_risks.sort(key=lambda o: o.weighted_score, reverse=True)
SortRisks(risks) == SortByScore(risks)

RECURSIVE SumOver(_, _)
SumOver(f, n) == IF n = 0 THEN 0 ELSE f[n] + SumOver(f, n - 1)

\* every rank weighs the same
RankWeightFlat(i) == 2

\* twice the rank weight: 2.0 for the first, 1.5 for the second, 1.0 after
RankWeight2(i) == IF i = 1 THEN 4 ELSE IF i = 2 THEN 3 ELSE 2

\* _compute_overall(risks) as the fraction num / den of tenths
ComputeOverall(risks) ==
    IF risks = <<>> THEN [num |-> 0, den |-> 1]
    ELSE IF Len(risks) = 1 THEN [num |-> risks[1].weighted_score, den |-> 1]
    ELSE [num |-> SumOver([i \in 1..Len(risks) |->
                              RankWeight2(i) * risks[i].weighted_score], Len(risks)),
          den |-> SumOver([i \in 1..Len(risks) |-> RankWeight2(i)], Len(risks))]

\* _factor_averages(risks), each in tenths
FactorAverages(risks) ==
    LET n == Len(risks)
        avg(f) == RoundTenths(SumOver(f, n), n)
    IN  IF n = 0
        THEN [severity |-> 0, penalty |-> 0, deadline |-> 0, frequency |-> 0]
        ELSE [severity |-> avg([i \in 1..n |-> risks[i].severity_score]),
              penalty |-> avg([i \in 1..n |-> risks[i].penalty_score]),
              deadline |-> avg([i \in 1..n |-> risks[i].deadline_score]),
              frequency |-> avg([i \in 1..n |-> risks[i].frequency_score])]

CountIf(risks, P(_)) == Cardinality({i \in 1..Len(risks) : P(risks[i])})

IsOverdue(r) == r.days_remaining.known /\ r.days_remaining.n < 0

IsSoon(r) ==
    r.days_remaining.known /\ r.days_remaining.n >= 0 /\ r.days_remaining.n <= 30

IsHighSeverity(r) == r.severity_score >= 75

\* the lines with the best-practice line put first
GenerateRecommendationsCalendarFirst(risks, band) ==
    << [line |-> "calendar", n |-> 0] >>
    \o (IF band \in {"CRITICAL", "HIGH"} THEN << [line |-> "urgent", n |-> 0] >> ELSE <<>>)
    \o (IF CountIf(risks, IsOverdue) > 0
        THEN << [line |-> "overdue", n |-> CountIf(risks, IsOverdue)] >> ELSE <<>>)
    \o (IF CountIf(risks, IsSoon) > 0
        THEN << [line |-> "soon", n |-> CountIf(risks, IsSoon)] >> ELSE <<>>)
    \o (IF CountIf(risks, IsHighSeverity) > 0
        THEN << [line |-> "high_severity", n |-> CountIf(risks, IsHighSeverity)] >>
        ELSE <<>>)

\* _generate_recommendations(risks, band, analysis): each line is named by
\* its kind, with the count it prints
GenerateRecommendations(risks, band) ==
    (IF band \in {"CRITICAL", "HIGH"} THEN << [line |-> "urgent", n |-> 0] >> ELSE <<>>)
    \o (IF CountIf(risks, IsOverdue) > 0
        THEN << [line |-> "overdue", n |-> CountIf(risks, IsOverdue)] >> ELSE <<>>)
    \o (IF CountIf(risks, IsSoon) > 0
        THEN << [line |-> "soon", n |-> CountIf(risks, IsSoon)] >> ELSE <<>>)
    \o (IF CountIf(risks, IsHighSeverity) > 0
        THEN << [line |-> "high_severity", n |-> CountIf(risks, IsHighSeverity)] >>
        ELSE <<>>)
    \o << [line |-> "calendar", n |-> 0] >>

\* the velocity with a ratio of exactly 1.5 counted as accelerating
ComputeRiskVelocityInclusive(risks) ==
    LET known(r) == r.days_remaining.known
        total == CountIf(risks, known)
        urgency2 == 2 * (2 * CountIf(risks, IsOverdue) + CountIf(risks, IsSoon))
    IN  IF total = 0 THEN "STABLE"
        ELSE IF urgency2 >= 3 * total THEN "ACCELERATING"
        ELSE IF urgency2 < total THEN "DECELERATING"
        ELSE "STABLE"

\* _compute_risk_velocity(risks)
ComputeRiskVelocity(risks) ==
    LET known(r) == r.days_remaining.known
        total == CountIf(risks, known)
        urgency2 == 2 * (2 * CountIf(risks, IsOverdue) + CountIf(risks, IsSoon))
    IN  IF total = 0 THEN "STABLE"
        ELSE IF urgency2 > 3 * total THEN "ACCELERATING"
        ELSE IF urgency2 < total THEN "DECELERATING"
        ELSE "STABLE"

(***************************************************************************)
(* ComplianceRiskScorer.score                                              *)
(***************************************************************************)

\* the call raised e: there is no report
Raised(e) ==
    [exc |-> e, overall_score |-> 0, overall_band |-> "MINIMAL",
     obligation_risks |-> <<>>, top_risks |-> <<>>,
     score_breakdown |-> [severity |-> 0, penalty |-> 0, deadline |-> 0, frequency |-> 0],
     generated_at |-> 0, recommendations |-> <<>>,
     sector_multiplier |-> 0, regional_multiplier |-> 0,
     total_expected_penalty_inr |-> 0, risk_velocity |-> ""]

\* for obl in obligations: obligation_risks.append(_score_obligation(...))
RECURSIVE ScoreObligations(_, _, _, _, _, _, _)
ScoreObligations(w, obligations, k, pmap, sector_mult, regional_mult, now) ==
    IF k > Len(obligations) THEN [exc |-> "none", risks |-> <<>>]
    ELSE LET Collect(one, rest) ==
                 IF one.exc # "none" THEN [exc |-> one.exc, risks |-> <<>>]
                 ELSE IF rest.exc # "none" THEN rest
                 ELSE [exc |-> "none", risks |-> <<one.risk>> \o rest.risks]
         IN  Collect(ScoreObligation(w, obligations[k], pmap, sector_mult, regional_mult, now),
                     ScoreObligations(w, obligations, k + 1, pmap,
                                     sector_mult, regional_mult, now))

\* for act in actions: a synthetic risk unless an obligation has its name
RECURSIVE ScoreActions(_, _, _, _)
ScoreActions(w, actions, k, obl_names) ==
    IF k > Len(actions) THEN [exc |-> "none", risks |-> <<>>]
    ELSE LET act == actions[k]
             Collect(act_name, rest) ==
                 IF act.kind # "dict" \/ act_name.t # "str"
                 THEN [exc |-> "AttributeError", risks |-> <<>>]
                 ELSE IF rest.exc # "none" THEN rest
                 ELSE IF Lower(act_name.s) \in obl_names THEN rest
                 ELSE [exc |-> "none",
                       risks |-> <<ScoreActionAsObligation(w, act)>> \o rest.risks]
         IN  Collect(Get(act.action, PyStr(<<>>)),
                     ScoreActions(w, actions, k + 1, obl_names))

\* score(analysis, business_profile) called when the clock reads now
Score(w, analysis, profile, now) ==
    LET Report(sector, regional, risks, overall, band) ==
            [exc |-> "none",
             overall_score |-> overall,
             overall_band |-> band,
             obligation_risks |-> risks,
             top_risks |-> SubSeq(risks, 1, Min(3, Len(risks))),
             score_breakdown |-> FactorAverages(risks),
             generated_at |-> now,
             recommendations |-> GenerateRecommendations(risks, band),
             sector_multiplier |-> sector.val,
             regional_multiplier |-> regional.val,
             total_expected_penalty_inr |->
                 SumOver([i \in 1..Len(risks) |-> risks[i].expected_penalty_inr],
                         Len(risks)),
             risk_velocity |-> ComputeRiskVelocity(risks)]
        Overall(sector, regional, risks, overall) ==
            Report(sector, regional, risks, RoundTenths(overall.num, 10 * overall.den),
                   Band(w, overall.num, 10 * overall.den))
        Sorted(sector, regional, risks) ==
            Overall(sector, regional, risks, ComputeOverall(risks))
        Outcome(sector, regional, pm, real, syn) ==
            IF sector.exc # "none" THEN Raised(sector.exc)
            ELSE IF regional.exc # "none" THEN Raised(regional.exc)
            ELSE IF pm.exc # "none" THEN Raised(pm.exc)
            ELSE IF real.exc # "none" THEN Raised(real.exc)
            ELSE IF syn.exc # "none" THEN Raised(syn.exc)
            ELSE Sorted(sector, regional, SortRisks(real.risks \o syn.risks))
        Actions(sector, regional, pm, real) ==
            Outcome(sector, regional, pm, real,
                    ScoreActions(w, analysis.compliance_actions, 1,
                                 {Lower(r.obligation_name) : r \in Range(real.risks)}))
        Obligations(sector, regional, pm) ==
            Actions(sector, regional, pm,
                    ScoreObligations(w, analysis.obligations, 1, pm.map,
                                     sector.val, regional.val, now))
    IN  Obligations(GetSectorMultiplier(profile), GetRegionalMultiplier(profile),
                    BuildPenaltyMap(analysis.penalties))

(***************************************************************************)
(* ProfitabilityOptimizer (scoring/profitability.py)                       *)
(*   Money is exact: rupees as integers, scheme values in twentieths of a  *)
(*   rupee, sector-adjusted totals in four-hundredths.  Analyze leaves out *)
(*   the multi-year projection and npv_5yr_inr of the report; they are     *)
(*   computed by MultiYearProjection and Npv5yr from a yearly benefit in   *)
(*   whole rupees.  roi_multiplier and yearly_projection_inr are not       *)
(*   represented.                                                          *)
(***************************************************************************)

TRADITIONAL_CA_COST_PER_HOUR == 2500

TRADITIONAL_HOURS_PER_SCHEME_APP == 10

DEFAULT_LOAN_AMOUNT_INR == 500000

MAX_GST_LATE_FEE == 10000

PAIR_ANNUAL_SUBSCRIPTION == 12000

PAIR_COST_PER_ITEM == 50

\* str.replace(sub, "") for a non-empty sub
RECURSIVE RemoveSub(_, _)
RemoveSub(s, sub) ==
    IF s = <<>> THEN <<>>
    ELSE IF PrefixAt(s, 1, sub) THEN RemoveSub(SubSeq(s, Len(sub) + 1, Len(s)), sub)
    ELSE <<Head(s)>> \o RemoveSub(Tail(s), sub)

\* round(num / den) to an integer, ties to even
RoundInt(num, den) ==
    LET q == num \div den
        r == num % den
    IN  IF 2 * r > den \/ (2 * r = den /\ q % 2 = 1) THEN q + 1 ELSE q

\* ProfitabilityOptimizer._parse_amount(s) for a Python value s
ParseAmount(v) ==
    IF ~Truthy(v) THEN Zero
    ELSE IF v.t # "str" THEN [exc |-> "AttributeError", num |-> 0, den |-> 1]
    ELSE
      LET s == RemoveSub(RemoveSub(RemoveChar(RemoveChar(Lower(v.s), ","), "₹"),
                                   <<"r","s",".">>), <<"r","s">>)
          cr == SearchNumberUnit(s, CroreUnits)
          lk == SearchNumberUnit(s, LakhUnits)
          th == SearchNumberUnit(s, ThousandUnits)
          nb == SearchNumber(s)
      IN  IF cr # 0 THEN Times(Float(Group(s, cr)), CRORE)
          ELSE IF lk # 0 THEN Times(Float(Group(s, lk)), LAKH)
          ELSE IF th # 0 THEN Times(Float(Group(s, th)), THOUSAND)
          ELSE IF nb # 0 THEN Float(Group(s, nb))
          ELSE Zero

\* _estimate_probability(violation, consequences), in hundredths
EstimateProbability(violation, consequences) ==
    LET text == Lower(violation \o <<" ">> \o consequences)
    IN  IF ContainsAny({ <<"m","a","n","d","a","t","o","r","y">>, <<"c","o","m","p","u","l","s","o","r","y">>, <<"m","u","s","t">>, <<"r","e","q","u","i","r","e","d"," ","b","y"," ","l","a","w">> }, text)
        THEN 85
        ELSE IF ContainsAny({ <<"a","u","d","i","t">>, <<"i","n","s","p","e","c","t","i","o","n">>, <<"s","c","r","u","t","i","n">> }, text) THEN 70
        ELSE IF ContainsAny({ <<"m","a","y">>, <<"p","o","s","s","i","b","l","e">>, <<"d","i","s","c","r","e","t","i","o","n">> }, text) THEN 40
        ELSE 55

\* the words the urgency search looks for: the first three words of the
\* violation, those longer than 3 characters
UrgencyWords(violation) ==
    LET words == Split(Lower(violation))
    IN  {words[i] : i \in {j \in 1..Min(3, Len(words)) : Len(words[j]) > 3}}

\* the urgency loop over the obligations from k on: the first obligation whose
\* name contains one of the words decides
RECURSIVE Urgency(_, _, _)
Urgency(obligations, k, words) ==
    IF k > Len(obligations) \/ words = {} THEN [exc |-> "none", val |-> "MEDIUM"]
    ELSE LET obl == obligations[k]
             name == Get(obl.obligation, PyStr(<<>>))
             sev == Get(obl.severity_if_ignored, PyStr(<<>>))
         IN  IF obl.kind # "dict" \/ name.t # "str"
             THEN [exc |-> "AttributeError", val |-> ""]
             ELSE IF ~ContainsAny(words, Lower(name.s))
             THEN Urgency(obligations, k + 1, words)
             ELSE IF sev.t # "str" THEN [exc |-> "AttributeError", val |-> ""]
             ELSE [exc |-> "none", val |->
                   IF ContainsAny({ <<"i","m","p","r","i","s","o","n">>, <<"c","r","i","m","i","n","a","l">>, <<"h","e","a","v","y">> }, Lower(sev.s))
                   THEN "CRITICAL"
                   ELSE IF ContainsAny({ <<"s","u","s","p","e","n","d">>, <<"r","e","v","o","k">> }, Lower(sev.s)) THEN "HIGH"
                   ELSE "MEDIUM"]

\* the PenaltyAvoidance of penalty entry p
AvoidanceOf(p, obligations) ==
    LET violation == Get(p.violation, PyStr(<<"U","n","k","n","o","w","n"," ","v","i","o","l","a","t","i","o","n">>))
        consequences == Get(p.other_consequences, PyStr(<<>>))
        none == [obligation |-> <<>>, expected_loss_avoided |-> 0, urgency |-> ""]
        Entry(amount, probability, urgency) ==
            IF p.kind # "dict" THEN [exc |-> "AttributeError", val |-> none]
            ELSE IF amount.exc # "none" THEN [exc |-> amount.exc, val |-> none]
            ELSE IF consequences.t # "str" THEN [exc |-> "AttributeError", val |-> none]
            ELSE IF violation.t # "str" THEN [exc |-> "TypeError", val |-> none]
            ELSE IF urgency.exc # "none" THEN [exc |-> urgency.exc, val |-> none]
            ELSE [exc |-> "none",
                  val |-> [obligation |-> violation.s,
                           expected_loss_avoided |->
                               RoundInt(amount.num * probability, amount.den * 100),
                           urgency |-> urgency.val]]
    IN  Entry(ParseAmount(Get(p.penalty_amount, PyStr(<<>>))),
              EstimateProbability(violation.s, consequences.s),
              Urgency(obligations, 1, UrgencyWords(violation.s)))

RECURSIVE AvoidancesFrom(_, _, _)
AvoidancesFrom(penalties, k, obligations) ==
    IF k > Len(penalties) THEN [exc |-> "none", list |-> <<>>]
    ELSE LET Collect(one, rest) ==
                 IF one.exc # "none" THEN [exc |-> one.exc, list |-> <<>>]
                 ELSE IF rest.exc # "none" THEN rest
                 ELSE [exc |-> "none", list |-> <<one.val>> \o rest.list]
         IN  Collect(AvoidanceOf(penalties[k], obligations),
                     AvoidancesFrom(penalties, k + 1, obligations))

\* CalculatePenaltyAvoidance without the default estimate
CalculatePenaltyAvoidanceNoDefault(analysis) ==
    AvoidancesFrom(analysis.penalties, 1, analysis.obligations)

\* _calculate_penalty_avoidance(analysis): with no penalty entry, one GST
\* late-fee estimate of MAX_GST_LATE_FEE * 0.6
CalculatePenaltyAvoidance(analysis) ==
    LET OrDefault(found) ==
            IF found.exc = "none" /\ found.list = <<>>
            THEN [exc |-> "none",
                  list |-> << [obligation |-> <<"G","S","T"," ","R","e","t","u","r","n"," ","L","a","t","e"," ","F","i","l","i","n","g"," ","(","e","s","t","i","m","a","t","e",")">>,
                               expected_loss_avoided |-> (MAX_GST_LATE_FEE * 6) \div 10,
                               urgency |-> "MEDIUM"] >>]
            ELSE found
    IN  OrDefault(AvoidancesFrom(analysis.penalties, 1, analysis.obligations))

\* schemes.get_applicable_schemes(business_profile): the scheme ids in order
GetApplicableSchemes(profile) ==
    LET et == Get(profile.enterprise_type, PyStr(<<>>))
        sec == Get(profile.sector, PyStr(<<>>))
        oc == Get(profile.owner_category, PyStr(<<>>))
        small == Lower(et.s) \in { <<"m","i","c","r","o">>, <<"s","m","a","l","l">> }
        new_unit == Truthy(Get(profile.is_new_unit, PyNum(0)))
    IN  IF et.t # "str" \/ sec.t # "str" \/ oc.t # "str"
        THEN [exc |-> "AttributeError", ids |-> <<>>]
        ELSE [exc |-> "none", ids |->
              (IF small /\ Lower(sec.s) \in { <<"m","a","n","u","f","a","c","t","u","r","i","n","g">>, <<"s","e","r","v","i","c","e">> }
               THEN <<"CGTMSE">> ELSE <<>>)
              \o (IF new_unit THEN <<"PMEGP">> ELSE <<>>)
              \o (IF small THEN <<"MUDRA">> ELSE <<>>)
              \o (IF ContainsAny({ <<"s","c">>, <<"s","t">>, <<"w","o","m","e","n">>, <<"w","o","m","a","n">> }, Lower(oc.s)) /\ new_unit
                  THEN <<"STANDUPINDIA">> ELSE <<>>)
              \o (IF ~Truthy(Get(profile.has_udyam, PyNum(0))) THEN <<"UDYAM">> ELSE <<>>)]

\* _estimate_single_scheme(scheme, profile).estimated_value_inr, in twentieths
\* of a rupee
SchemeValue20(sid, profile) ==
    LET loc == Get(profile.location_type, PyStr(<<"u","r","b","a","n">>))
        cat == Get(profile.owner_category, PyStr(<<"g","e","n","e","r","a","l">>))
        special == ContainsAny({ <<"s","c">>, <<"s","t">>, <<"w","o","m","e","n">>, <<"w","o","m","a","n">>, <<"m","i","n","o","r","i","t","y">> }, Lower(cat.s))
        rate == IF Contains(<<"r","u","r","a","l">>, Lower(loc.s))
                THEN (IF special THEN 35 ELSE 25)
                ELSE (IF special THEN 25 ELSE 15)
        turnover == Get(profile.annual_turnover, PyNum(0)).n
    IN  IF sid = "CGTMSE"
        THEN Get(profile.loan_amount, PyNum(DEFAULT_LOAN_AMOUNT_INR)).n * 15
        ELSE IF sid = "PMEGP"
        THEN (Get(profile.project_cost, PyNum(1000000)).n * rate) \div 5
        ELSE IF sid = "MUDRA"
        THEN 20 * (IF turnover > 5000000 THEN 1000000
                   ELSE IF turnover > 500000 THEN 500000 ELSE 50000)
        ELSE IF sid = "STANDUPINDIA"
        THEN 20 * Get(profile.loan_amount, PyNum(1000000)).n
        ELSE Get(profile.annual_turnover, PyNum(500000)).n * 3

\* ProfitabilityOptimizer._get_sector_multiplier(profile), with
\* SECTOR_BENEFIT_MULTIPLIERS, in hundredths
GetSectorBenefitMultiplier(profile) ==
    LET v == Get(profile.sector, Get(profile.business_type, PyStr(<<>>)))
        sector == Lower(v.s)
    IN  IF v.t # "str" THEN [exc |-> "AttributeError", val |-> 0]
        ELSE [exc |-> "none", val |->
              IF ContainsAny({ <<"m","a","n","u","f","a","c","t","u","r">>, <<"f","a","c","t","o","r","y">>, <<"p","r","o","d","u","c","t","i","o","n">> }, sector) THEN 130
              ELSE IF ContainsAny({ <<"s","e","r","v","i","c","e">>, <<"c","o","n","s","u","l","t">>, <<"i","t">>, <<"s","o","f","t","w","a","r","e">> }, sector) THEN 100
              ELSE IF ContainsAny({ <<"t","r","a","d">>, <<"r","e","t","a","i","l">>, <<"w","h","o","l","e","s","a","l","e">> }, sector) THEN 115
              ELSE IF ContainsAny({ <<"c","r","a","f","t">>, <<"h","a","n","d","l","o","o","m">>, <<"a","r","t","i","s","a","n">> }, sector) THEN 120
              ELSE 100]

\* _cost_comparison(num_policies, num_schemes)
CostComparison(num_policies, num_schemes) ==
    LET total_items == num_policies + num_schemes
        trad_cost == TRADITIONAL_HOURS_PER_SCHEME_APP * total_items
                        * TRADITIONAL_CA_COST_PER_HOUR
        pair_cost == total_items * PAIR_COST_PER_ITEM
    IN  [traditional_cost_inr |-> trad_cost, pair_cost_inr |-> pair_cost,
         savings_inr |-> trad_cost - pair_cost]

\* PROJECTION_YEARS
PROJECTION_YEARS == 5

\* 1 + GROWTH_RATE = 1.15 and 1 + DISCOUNT_RATE = 1.10 as fractions
GrowthFactor == [num |-> 23, den |-> 20]

DiscountFactor == [num |-> 11, den |-> 10]

RECURSIVE Pow(_, _)
Pow(b, n) == IF n = 0 THEN 1 ELSE b * Pow(b, n - 1)

RECURSIVE Gcd(_, _)
Gcd(a, b) == IF b = 0 THEN a ELSE Gcd(b, a % b)

\* a * b / d for a >= 0 as a quotient and a remainder, a * b = q * d + r,
\* seven bits of a at a time, so that no intermediate value leaves 32 bits
RECURSIVE MulDiv(_, _, _)
MulDiv(a, b, d) ==
    LET Step(h) == [q |-> 128 * h.q + (128 * h.r + (a % 128) * b) \div d,
                    r |-> (128 * h.r + (a % 128) * b) % d]
    IN  IF a = 0 THEN [q |-> 0, r |-> 0] ELSE Step(MulDiv(a \div 128, b, d))

\* round(a * b / d, 0), ties to even
RoundMulDiv(a, b, d) ==
    LET Rounded(h) ==
            IF 2 * h.r > d \/ (2 * h.r = d /\ h.q % 2 = 1) THEN h.q + 1 ELSE h.q
    IN  Rounded(MulDiv(a, b, d))

\* (1 + GROWTH_RATE) ** year, one year too many
GrossFactorFromYearOne(year) ==
    [num |-> Pow(GrowthFactor.num, year), den |-> Pow(GrowthFactor.den, year)]

\* (1 + GROWTH_RATE) ** (year - 1)
GrossFactor(year) ==
    [num |-> Pow(GrowthFactor.num, year - 1), den |-> Pow(GrowthFactor.den, year - 1)]

\* one year of growth over one year of discount, (1.15 / 1.10) = 23 / 22
YearRatio ==
    LET n == GrowthFactor.num * DiscountFactor.den
        d == GrowthFactor.den * DiscountFactor.num
    IN  [num |-> n \div Gcd(n, d), den |-> d \div Gcd(n, d)]

\* (1 + GROWTH_RATE) ** (year - 1) / (1 + DISCOUNT_RATE) ** year in lowest
\* terms: the factor of npv in year `year`
NpvFactor(year) ==
    [num |-> DiscountFactor.den * Pow(YearRatio.num, year - 1),
     den |-> DiscountFactor.num * Pow(YearRatio.den, year - 1)]

\* the sum of NpvFactor(1..year) over the denominator of NpvFactor(year):
\* the factor of cumulative_npv in year `year`
RECURSIVE CumulativeNum(_, _)
CumulativeNum(k, year) ==
    IF k = 0 THEN 0
    ELSE NpvFactor(k).num * Pow(YearRatio.den, year - k) + CumulativeNum(k - 1, year)

CumulativeFactor(year) == [num |-> CumulativeNum(year, year), den |-> NpvFactor(year).den]

\* _multi_year_projection(yearly_roi) for a whole number yearly_roi >= 0 of
\* rupees; the three amounts of an entry are whole rupees.  The roi_multiplier
\* of an entry is not represented.
MultiYearProjection(yearly_roi) ==
    [year \in 1..PROJECTION_YEARS |->
        [year |-> year,
         gross_benefit_inr |->
             RoundMulDiv(yearly_roi, GrossFactor(year).num, GrossFactor(year).den),
         discounted_benefit_inr |->
             RoundMulDiv(yearly_roi, NpvFactor(year).num, NpvFactor(year).den),
         cumulative_npv_inr |->
             RoundMulDiv(yearly_roi, CumulativeFactor(year).num, CumulativeFactor(year).den)]]

\* npv_5yr_inr of analyze(): round(multi_year[-1].cumulative_npv_inr, 0)
Npv5yr(multi_year) ==
    IF multi_year = <<>> THEN 0 ELSE multi_year[Len(multi_year)].cumulative_npv_inr

\* month 1 only when the monthly benefit exceeds the monthly cost, and no
\* search
BreakEvenMonthsStrict(num, den) ==
    LET monthly_cost == PAIR_ANNUAL_SUBSCRIPTION \div 12
    IN  IF num <= 0 THEN 99
        ELSE IF num > monthly_cost * den THEN 1
        ELSE 60

\* _break_even_months(yearly_roi) for yearly_roi = 12 * num / den: num / den is
\* the monthly benefit
BreakEvenMonths(num, den) ==
    LET monthly_cost == PAIR_ANNUAL_SUBSCRIPTION \div 12
        months == {m \in 1..60 : m * num >= monthly_cost * m * den}
    IN  IF num <= 0 THEN 99
        ELSE IF num >= monthly_cost * den THEN 1
        ELSE IF months # {} THEN CHOOSE m \in months : \A k \in months : m <= k
        ELSE 60

NoProfit(e) ==
    [exc |-> e, total_penalty_avoidance_inr |-> 0, total_scheme_benefits_inr |-> 0,
     total_cost_savings_inr |-> 0, total_roi_inr |-> 0, penalty_avoidances |-> <<>>,
     scheme_benefits |-> <<>>, sector_multiplier |-> 0, break_even_months |-> 0,
     generated_at |-> 0]

\* analyze(analysis_result, business_profile, num_policies) called when the
\* clock reads now
Analyze(analysis_result, profile, num_policies, now) ==
    LET \* penalties_adj, schemes_adj and total_roi are in four-hundredths of a rupee
        Report(avoid, schemes, values, cost, mult, penalties_adj, schemes_adj, total_roi) ==
            IF avoid.exc # "none" THEN NoProfit(avoid.exc)
            ELSE IF schemes.exc # "none" THEN NoProfit(schemes.exc)
            ELSE IF mult.exc # "none" THEN NoProfit(mult.exc)
            ELSE [exc |-> "none",
                  total_penalty_avoidance_inr |-> RoundInt(penalties_adj, 400),
                  total_scheme_benefits_inr |-> RoundInt(schemes_adj, 400),
                  total_cost_savings_inr |-> cost.savings_inr,
                  total_roi_inr |-> RoundInt(total_roi, 400),
                  penalty_avoidances |-> avoid.list,
                  scheme_benefits |-> [i \in 1..Len(schemes.ids) |->
                                          [scheme_id |-> schemes.ids[i],
                                           estimated_value20 |-> values[i]]],
                  sector_multiplier |-> mult.val,
                  break_even_months |->
                      BreakEvenMonths(total_roi, 400 * Max(num_policies, 1)),
                  generated_at |-> now]
        Adjust(avoid, schemes, values, cost, mult, penalties_adj, schemes_adj) ==
            Report(avoid, schemes, values, cost, mult, penalties_adj, schemes_adj,
                   penalties_adj + schemes_adj + 400 * cost.savings_inr)
        Totals(avoid, schemes, values, cost, mult) ==
            Adjust(avoid, schemes, values, cost, mult,
                   SumOver([i \in 1..Len(avoid.list) |->
                               avoid.list[i].expected_loss_avoided], Len(avoid.list))
                       * 20 * (mult.val \div 5),
                   SumOver(values, Len(values)) * (mult.val \div 5))
        Schemes(avoid, schemes) ==
            Totals(avoid, schemes,
                   [i \in 1..Len(schemes.ids) |-> SchemeValue20(schemes.ids[i], profile)],
                   CostComparison(num_policies, Len(schemes.ids)),
                   GetSectorBenefitMultiplier(profile))
    IN  Schemes(CalculatePenaltyAvoidance(analysis_result), GetApplicableSchemes(profile))

(***************************************************************************)
(* ImpactEngine (scoring/impact_engine.py)                                 *)
(*   A sub-score is a whole number of 1/SCALE points, every division       *)
(*   rounded down to that unit.  math.exp and math.log10 are tables of     *)
(*   their values to five decimals at the arguments the inputs produce.    *)
(*   Reported scores are tenths.  The projections, the sector benchmark,   *)
(*   the GRC alignment and the narrative of the report are not             *)
(*   represented.                                                          *)
(***************************************************************************)

\* units of a sub-score per point
SCALE == 100000

\* the quotient q of n / d carried k more decimal digits, rounded down
RECURSIVE LongDiv(_, _, _, _)
LongDiv(q, r, d, k) ==
    IF k = 0 THEN q
    ELSE LongDiv(10 * q + (10 * r) \div d, (10 * r) % d, d, k - 1)

\* n / d in units of 10^-k, rounded down
FixDiv(n, d, k) == LongDiv(n \div d, n % d, d, k)

\* math.exp(k / 150) in 1/SCALE, for the arguments (30 - raw_risk) / 15 of
\* a risk score given in tenths
MathExp(k) ==
    CASE k = 300 -> 738906
      [] k = 150 -> 271828
      [] k = 0 -> 100000
      [] k = -150 -> 36788
      [] k = -200 -> 26360
      [] k = -300 -> 13534
      [] k = -450 -> 4979
      [] k = -600 -> 1832
      [] k = -700 -> 940

\* math.log10(a / 100) in 1/SCALE
MathLog10(a) ==
    CASE a = 101 -> 432
      [] a = 200 -> 30103
      [] a = 300 -> 47712
      [] a = 350 -> 54407
      [] a = 600 -> 77815
      [] a = 1000 -> 100000
      [] a = 1100 -> 104139
      [] a = 10000 -> 200000
      [] a = 100000 -> 300000

\* IMPACT_GRADES, highest threshold first
ImpactGrades ==
    << <<90, "TRANSFORMATIVE">>, <<75, "HIGH">>, <<55, "MODERATE">>,
       <<35, "LOW">>, <<0, "MINIMAL">> >>

\* _grade(score) for a score in tenths
Grade(score) ==
    LET hit == {k \in 1..Len(ImpactGrades) : score >= 10 * ImpactGrades[k][1]}
    IN  IF hit = {} THEN "MINIMAL"
        ELSE ImpactGrades[CHOOSE k \in hit : \A j \in hit : k <= j][2]

\* SECTOR_BENCHMARKS, the two baselines the sub-scores read
SectorBenchmarks ==
    [manufacturing |-> [avg_compliance_cost_inr |-> 85000, avg_penalties_year_inr |-> 150000],
     service |-> [avg_compliance_cost_inr |-> 55000, avg_penalties_year_inr |-> 80000],
     trading |-> [avg_compliance_cost_inr |-> 65000, avg_penalties_year_inr |-> 120000],
     handicraft |-> [avg_compliance_cost_inr |-> 35000, avg_penalties_year_inr |-> 50000],
     default |-> [avg_compliance_cost_inr |-> 60000, avg_penalties_year_inr |-> 100000]]

\* REGIONAL_STRICTNESS of the impact engine in insertion order, hundredths
ImpactRegionalStrictness ==
    << << <<"m","a","h","a","r","a","s","h","t","r","a">>, 125 >>, << <<"k","a","r","n","a","t","a","k","a">>, 120 >>, << <<"t","a","m","i","l","_","n","a","d","u">>, 115 >>,
       << <<"t","e","l","a","n","g","a","n","a">>, 115 >>, << <<"d","e","l","h","i">>, 130 >>, << <<"g","u","j","a","r","a","t">>, 110 >>,
       << <<"u","t","t","a","r","_","p","r","a","d","e","s","h">>, 90 >>, << <<"w","e","s","t","_","b","e","n","g","a","l">>, 95 >>, << <<"r","a","j","a","s","t","h","a","n">>, 90 >>,
       << <<"a","n","d","h","r","a","_","p","r","a","d","e","s","h">>, 105 >>, << <<"k","e","r","a","l","a">>, 110 >>, << <<"p","u","n","j","a","b">>, 100 >>,
       << <<"d","e","f","a","u","l","t">>, 100 >> >>

\* ImpactEngine._resolve_sector(profile)
ResolveSector(profile) ==
    LET v == Get(profile.sector, Get(profile.business_type, PyStr(<<>>)))
        sector == Lower(v.s)
    IN  IF v.t # "str" THEN [exc |-> "AttributeError", val |-> "default"]
        ELSE [exc |-> "none", val |->
              IF ContainsAny({ <<"m","a","n","u","f","a","c","t","u","r">>, <<"f","a","c","t","o","r","y">>, <<"p","r","o","d","u","c","t","i","o","n">> }, sector) THEN "manufacturing"
              ELSE IF ContainsAny({ <<"s","e","r","v","i","c","e">>, <<"c","o","n","s","u","l","t">>, <<"i","t">>, <<"s","o","f","t","w","a","r","e">> }, sector) THEN "service"
              ELSE IF ContainsAny({ <<"t","r","a","d">>, <<"r","e","t","a","i","l">>, <<"w","h","o","l","e","s","a","l","e">>, <<"s","h","o","p">> }, sector) THEN "trading"
              ELSE IF ContainsAny({ <<"c","r","a","f","t">>, <<"h","a","n","d","l","o","o","m">>, <<"a","r","t","i","s","a","n">>, <<"h","a","n","d","i","c","r","a","f","t">> }, sector) THEN "handicraft"
              ELSE "default"]

\* ImpactEngine._resolve_region(profile) followed by the lookup of the
\* multiplier: an exact key, else the first key that contains the state or
\* is contained in it (the empty state is contained in the first key)
ResolveRegion(profile) ==
    LET v == Get(profile.state, Get(profile.location, PyStr(<<>>)))
        state == ReplaceChar(Lower(v.s), " ", "_")
        T == ImpactRegionalStrictness
        exact == {k \in 1..Len(T) : T[k][1] = state}
        loose == {k \in 1..Len(T) : Contains(T[k][1], state) \/ Contains(state, T[k][1])}
        First(S) == CHOOSE k \in S : \A j \in S : k <= j
    IN  IF v.t # "str" THEN [exc |-> "AttributeError", val |-> 0]
        ELSE [exc |-> "none", val |->
              IF exact # {} THEN T[First(exact)][2]
              ELSE IF loose # {} THEN T[First(loose)][2]
              ELSE 100]

\* _risk_reduction_score(raw_risk, regional_mult): raw_risk in tenths,
\* regional_mult in hundredths
RiskReductionScore(raw_risk, regional_mult) ==
    LET sigmoid == FixDiv(100 * SCALE, SCALE + MathExp(300 - raw_risk), 5)
    IN  Min(100 * SCALE, (sigmoid * Min(regional_mult, 120)) \div 100)

\* _profitability_score(roi_mult, total_roi, penalties, schemes, bench):
\* roi_mult in tenths, money in rupees
ProfitabilityScore(roi_mult, penalties, schemes, bench) ==
    LET roi_component == Min(100 * SCALE, 30 * MathLog10(10 * (Max(roi_mult, 10) + 10)))
        penalty_component ==
            Min(100 * SCALE, FixDiv(penalties * 80, Max(bench.avg_penalties_year_inr, 1), 5))
        scheme_component == Min(100 * SCALE, FixDiv(schemes, 50000, 5))
    IN  (4 * roi_component + 3 * penalty_component + 3 * scheme_component) \div 10

\* _sustainability_score(green_score, co2_kg): green_score in tenths,
\* co2_kg in hundredths
SustainabilityScore(green_score, co2_kg) ==
    LET co2_component == Min(100 * SCALE, 40 * MathLog10(Max(co2_kg, 1) + 100))
    IN  (7 * green_score * (SCALE \div 10) + 3 * co2_component) \div 10

\* _time_saved_score(hours, productivity, num_policies): hours in tenths,
\* productivity in hundredths; (hours / n / 7.5) * 80 is hours * 32 / (3 n)
TimeSavedScore(hours, productivity, n) ==
    LET time_component == Min(100 * SCALE, FixDiv(hours * 32, 3 * Max(n, 1), 4))
        prod_bonus == Min(20 * SCALE, (productivity - 100) * 4 * (SCALE \div 100))
    IN  Min(100 * SCALE, time_component + prod_bonus)

\* _cost_saved_score(cost_inr, bench, num_policies): max(avg_cost / 12, 1)
\* is max(avg_cost, 12) / 12
CostSavedScore(cost_inr, bench, n) ==
    Min(100 * SCALE,
        FixDiv(cost_inr * 960, Max(n, 1) * Max(bench.avg_compliance_cost_inr, 12), 5))

\* round(x, 1) in tenths of a sub-score x, ties to the even tenth
RoundScore(x) == RoundInt(x, SCALE \div 10)

\* what calculate() returns when a helper raised
NoImpact(e) ==
    [exc |-> e, impact_score |-> 0, impact_grade |-> "",
     breakdown |-> [compliance_risk_reduction |-> 0, profitability_gain |-> 0,
                    sustainability_improvement |-> 0, time_saved |-> 0, cost_saved |-> 0],
     composite |-> 0, regional_multiplier |-> 0]

\* the weights W_RISK, W_PROFIT, W_SUSTAINABILITY, W_TIME, W_COST in hundredths
ImpactWeights == [risk |-> 30, profit |-> 25, sustainability |-> 20, time |-> 15, cost |-> 10]

\* the weighted sum of five sub-scores, in the unit of the sub-scores
Composite(risk, prof, sus, time, cost) ==
    (ImpactWeights.risk * risk + ImpactWeights.profit * prof
     + ImpactWeights.sustainability * sus + ImpactWeights.time * time
     + ImpactWeights.cost * cost) \div 100

\* ImpactEngine.calculate(risk_data, sustainability_data, profitability_data,
\* business_profile, num_policies); composite is the weighted sum before the
\* regional scaling, the clamp and the rounding
Calculate(risk_data, sustainability_data, profitability_data, business_profile, n) ==
    LET Report(mult, risk, prof, sus, time, cost, sum) ==
            [exc |-> "none",
             impact_score |-> RoundScore(Min(100 * SCALE, (sum * Min(mult, 115)) \div 100)),
             impact_grade |-> Grade(RoundScore(Min(100 * SCALE, (sum * Min(mult, 115)) \div 100))),
             breakdown |-> [compliance_risk_reduction |-> RoundScore(risk),
                            profitability_gain |-> RoundScore(prof),
                            sustainability_improvement |-> RoundScore(sus),
                            time_saved |-> RoundScore(time),
                            cost_saved |-> RoundScore(cost)],
             composite |-> sum,
             regional_multiplier |-> mult]
        Sum(mult, risk, prof, sus, time, cost) ==
            Report(mult, risk, prof, sus, time, cost, Composite(risk, prof, sus, time, cost))
        Scores(mult, bench) ==
            Sum(mult,
                RiskReductionScore(Get(risk_data.overall_score, PyNum(500)).n, mult),
                ProfitabilityScore(Get(profitability_data.roi_multiplier, PyNum(10)).n,
                                   Get(profitability_data.penalty_avoidance_inr, PyNum(0)).n,
                                   Get(profitability_data.scheme_benefits_inr, PyNum(0)).n,
                                   bench),
                SustainabilityScore(Get(sustainability_data.green_score, PyNum(0)).n,
                                    Get(sustainability_data.co2_saved_kg, PyNum(0)).n),
                TimeSavedScore(Get(sustainability_data.hours_saved, PyNum(0)).n,
                               Get(sustainability_data.productivity_multiplier, PyNum(100)).n,
                               n),
                CostSavedScore(Get(sustainability_data.cost_saved_inr, PyNum(0)).n, bench, n))
        Resolved(sector, region) ==
            IF sector.exc # "none" THEN NoImpact(sector.exc)
            ELSE IF region.exc # "none" THEN NoImpact(region.exc)
            ELSE Scores(region.val, SectorBenchmarks[sector.val])
    IN  Resolved(ResolveSector(business_profile), ResolveRegion(business_profile))

(***************************************************************************)
(* SustainabilityEngine (scoring/sustainability.py)                        *)
(*   Sub-scores and the green score are whole numbers of 1/SCALE points,   *)
(*   math.log2 is a table of its values to five decimals; the reported     *)
(*   green score is in tenths.  The weight, tree, water, carbon, cost and  *)
(*   yearly figures, the SDG alignment and the narrative of the report are *)
(*   not represented.                                                      *)
(***************************************************************************)

AVG_YEARLY_POLICIES_MSME == 12

\* config.scoring as the engine reads it: pages per policy, kilometres per
\* visit, kg CO2 per km in hundredths, kWh per transaction in thousandths,
\* kg CO2 per kWh in hundredths
SustainabilityConfig ==
    [paper_pages_per_policy |-> 25, co2_per_km_kg |-> 21,
     avg_consultant_travel_km |-> 50, kwh_per_digital_transaction |-> 5,
     co2_per_kwh_kg |-> 82]

\* math.log2(m) in 1/SCALE for 2 <= m <= 16
MathLog2(m) ==
    CASE m = 2 -> 100000
      [] m = 3 -> 158496
      [] m = 4 -> 200000
      [] m = 5 -> 232193
      [] m = 6 -> 258496
      [] m = 7 -> 280735
      [] m = 8 -> 300000
      [] m = 9 -> 316993
      [] m = 10 -> 332193
      [] m = 11 -> 345943
      [] m = 12 -> 358496
      [] m = 13 -> 370044
      [] m = 14 -> 380735
      [] m = 15 -> 390689
      [] m = 16 -> 400000

\* min(100, math.log2(max(total_docs, 1) + 1) * 25)
ScaleScore(total_docs) ==
    IF Max(total_docs, 1) + 1 >= 16 THEN 100 * SCALE
    ELSE 25 * MathLog2(Max(total_docs, 1) + 1)

\* the paper, carbon and efficiency sub-scores of _compute_green_score, from
\* the pages saved, the net CO2 saved in thousandths of a kg and the
\* productivity multiplier in tenths
GreenSubScores(pages_saved, net_co2_saved, productivity_multiplier) ==
    LET cfg == SustainabilityConfig
        paper_benchmark == Max(cfg.paper_pages_per_policy * AVG_YEARLY_POLICIES_MSME, 1)
        carbon_benchmark ==
            Max(cfg.avg_consultant_travel_km * AVG_YEARLY_POLICIES_MSME
                    * cfg.co2_per_km_kg * 10, 10)
    IN  [paper |-> IF pages_saved >= paper_benchmark THEN 100 * SCALE
                   ELSE FixDiv(pages_saved * 100, paper_benchmark, 5),
         carbon |-> IF net_co2_saved >= carbon_benchmark THEN 100 * SCALE
                    ELSE FixDiv(net_co2_saved * 100, carbon_benchmark, 5),
         efficiency |-> Min(100 * SCALE, productivity_multiplier * ((625 * SCALE) \div 1000))]

\* _compute_green_score(paper, carbon, efficiency, total_docs)
ComputeGreenScore(sub, total_docs) ==
    (30 * sub.paper + 30 * sub.carbon + 25 * sub.efficiency
        + 15 * ScaleScore(total_docs)) \div 100

\* SustainabilityEngine._grade(score)
SustainabilityGrade(score) ==
    IF score >= 90 * SCALE THEN "A+"
    ELSE IF score >= 75 * SCALE THEN "A"
    ELSE IF score >= 60 * SCALE THEN "B"
    ELSE IF score >= 40 * SCALE THEN "C"
    ELSE "D"

\* carbon.net_co2_saved_kg of calculate(), in thousandths of a kg: the CO2 of
\* the travel avoided less that of the digital processing, both in 10^-5 kg
NetCo2Saved(total_docs) ==
    LET cfg == SustainabilityConfig
        travel_co2 == cfg.avg_consultant_travel_km * total_docs * cfg.co2_per_km_kg * 1000
        energy_co2 == cfg.kwh_per_digital_transaction * total_docs * cfg.co2_per_kwh_kg
    IN  RoundInt(Max(0, travel_co2 - energy_co2), 100)

\* SustainabilityEngine.calculate(num_policies, num_schemes)
SustainabilityCalculate(policies, schemes) ==
    LET cfg == SustainabilityConfig
        total_docs == policies + schemes
        Report(pages, net_co2_saved, productivity, green) ==
            [green_score |-> RoundScore(green),
             grade |-> SustainabilityGrade(green),
             pages_saved |-> pages,
             productivity_multiplier |-> productivity]
        Scored(pages, net_co2_saved, productivity) ==
            Report(pages, net_co2_saved, productivity,
                   ComputeGreenScore(GreenSubScores(pages, net_co2_saved, productivity),
                                     total_docs))
    IN  Scored(cfg.paper_pages_per_policy * total_docs,
               NetCo2Saved(total_docs),
               IF total_docs > 0 THEN 160 ELSE 10)

(***************************************************************************)
(* Inputs                                                                  *)
(***************************************************************************)

\* an obligation as the analysis step emits it: a dict of four optional keys
Obligation(name, severity, deadline, frequency) ==
    [kind |-> "dict", obligation |-> name, severity_if_ignored |-> severity,
     deadline |-> deadline, frequency |-> frequency]

Penalty(violation, amount) ==
    [kind |-> "dict", violation |-> violation, penalty_amount |-> amount,
     other_consequences |-> Missing]

Action(name, priority) == [kind |-> "dict", action |-> name, priority |-> priority]

\* a list element that is not a dict (a bare string, say)
NotADictObligation ==
    [kind |-> "other", obligation |-> Missing, severity_if_ignored |-> Missing,
     deadline |-> Missing, frequency |-> Missing]

NotADictPenalty ==
    [kind |-> "other", violation |-> Missing, penalty_amount |-> Missing,
     other_consequences |-> Missing]

Profile(sector, state) == [NoProfile EXCEPT !.sector = sector, !.state = state]

\* the analysis dicts with the given lists
AnalysesOf(obligationLists, penaltyLists, actionLists) ==
    [obligations : obligationLists, penalties : penaltyLists,
     compliance_actions : actionLists]

\* all sequences over S of length exactly n, and of length at most n
SeqsOf(S, n) == [1..n -> S]

SeqsUpTo(S, n) == UNION {SeqsOf(S, k) : k \in 0..n}

\* the most records (obligations, penalties and actions together) of a batch
MaxRecords == 3

\* the latest clock reading, in half days after ClockEpochDay
MaxNow == 2

\* the most policies a profitability request counts
MaxPolicies == 3

\* the highest score, in tenths, the band function is applied to
MaxScoreTenths == 1000

ScenarioA ==
    Obligation(PyStr(<<"F","i","l","e"," ","G","S","T"," ","r","e","t","u","r","n">>), PyStr(<<"C","R","I","M","I","N","A","L">>),
               PyStr(<<"2","0","2","6","-","0","1","-","0","3">>), PyStr(<<"D","A","I","L","Y">>))

ScenarioB ==
    Obligation(PyStr(<<"R","e","n","e","w"," ","t","r","a","d","e"," ","l","i","c","e","n","c","e">>), PyStr(<<"F","i","n","e">>), Missing, PyStr(<<"A","N","N","U","A","L","L","Y">>))

DueToday ==
    Obligation(PyStr(<<"M","a","i","n","t","a","i","n"," ","s","t","o","c","k"," ","r","e","g","i","s","t","e","r","s">>), PyStr(<<"w","a","r","n","i","n","g"," ","n","o","t","i","c","e">>),
               PyStr(<<"0","1","/","0","1","/","2","0","2","6">>), PyStr(<<"m","o","n","t","h","l","y">>))

WrongTypedSeverity ==
    Obligation(PyStr(<<"D","i","s","p","l","a","y"," ","c","e","r","t","i","f","i","c","a","t","e">>), PyNum(5), PyStr(<<"w","i","t","h","i","n"," ","3","0"," ","d","a","y","s">>), Missing)

ObligationPool == {ScenarioA, ScenarioB, DueToday, WrongTypedSeverity, NotADictObligation}

PenaltyPool ==
    { Penalty(PyStr(<<"L","a","t","e"," ","f","i","l","i","n","g"," ","o","f"," ","r","e","t","u","r","n">>), PyStr(<<"R","s","."," ","5","0",",","0","0","0">>)),
      Penalty(PyStr(<<"R","e","g","i","s","t","e","r","s"," ","n","o","t"," ","m","a","i","n","t","a","i","n","e","d">>), PyStr(<<"A","s"," ","t","h","e"," ","o","f","f","i","c","e","r"," ","d","e","c","i","d","e","s",".">>)),
      NotADictPenalty }

ActionPool ==
    { Action(PyStr(<<"f","i","l","e"," ","g","s","t"," ","r","e","t","u","r","n">>), PyStr(<<"H","I","G","H">>)),
      Action(PyStr(<<"T","r","a","i","n"," ","s","t","a","f","f">>), Missing) }

ProfilePool == { NoProfile, Profile(PyStr(<<"H","a","n","d","i","c","r","a","f","t">>), PyStr(<<"R","a","j","a","s","t","h","a","n">>)) }

\* the batches of at most MaxRecords records
Analyses ==
    UNION { AnalysesOf(SeqsOf(ObligationPool, n[1]), SeqsOf(PenaltyPool, n[2]),
                       SeqsOf(ActionPool, n[3])) :
            n \in {m \in (0..MaxRecords) \X (0..MaxRecords) \X (0..MaxRecords) :
                      m[1] + m[2] + m[3] <= MaxRecords} }

\* one obligation, every combination of the texts below
RichObligations ==
    { Obligation(PyStr(name), severity, deadline, frequency) :
        name \in { <<"F","i","l","e"," ","G","S","T"," ","r","e","t","u","r","n">>, <<"P","a","y"," ","G","S","T"," ","d","u","e","s">> },
        severity \in { PyStr(<<"C","R","I","M","I","N","A","L">>), PyStr(<<"l","i","c","e","n","c","e"," ","m","a","y"," ","b","e"," ","s","u","s","p","e","n","d","e","d">>),
                       PyStr(<<"f","i","n","e"," ","a","n","d"," ","w","a","r","n","i","n","g"," ","n","o","t","i","c","e">>), PyStr(<<"A","D","V","I","S","O","R","Y">>), PyStr(<<"S","U","S","P","E","N","S","I","O","N">>), Missing },
        deadline \in { PyStr(<<"2","0","2","6","-","0","1","-","0","3">>), PyStr(<<"0","1","/","0","1","/","2","0","2","6">>), PyStr(<<"w","i","t","h","i","n"," ","7"," ","d","a","y","s">>),
                       PyStr(<<"3","0"," ","F","e","b","r","u","a","r","y"," ","2","0","2","6">>), Missing },
        frequency \in { PyStr(<<"D","A","I","L","Y">>), PyStr(<<"A","N","N","U","A","L","L","Y">>), Missing } }

RichPenalties ==
    { Penalty(PyStr(<<"L","a","t","e"," ","f","i","l","i","n","g"," ","o","f"," ","r","e","t","u","r","n">>), PyStr(<<"R","s"," ","5","0","0">>)),
      Penalty(PyStr(<<"L","a","t","e"," ","G","S","T"," ","p","a","y","m","e","n","t">>), PyStr(<<"5"," ","l","a","k","h">>)),
      Penalty(PyStr(<<"D","e","l","a","y"," ","i","n"," ","R","E","T","U","R","N">>), PyStr(<<"R","s","."," ","2"," ","c","r","o","r","e">>)),
      Penalty(PyStr(<<"A","n","y"," ","o","t","h","e","r"," ","d","e","f","a","u","l","t">>), PyStr(<<"A","s"," ","t","h","e"," ","o","f","f","i","c","e","r"," ","d","e","c","i","d","e","s",".">>)),
      Penalty(PyStr(<<"W","r","o","n","g"," ","r","e","t","u","r","n"," ","f","i","l","e","d">>), PyStr(<<"n","o","t"," ","s","p","e","c","i","f","i","e","d">>)) }

RichProfiles ==
    { NoProfile,
      Profile(PyStr(<<"H","a","n","d","i","c","r","a","f","t">>), PyStr(<<"R","a","j","a","s","t","h","a","n">>)),
      Profile(PyStr(<<"M","a","n","u","f","a","c","t","u","r","i","n","g">>), PyStr(<<"R","a","j","a","s","t","h","a","n">>)),
      Profile(PyStr(<<"M","a","n","u","f","a","c","t","u","r","i","n","g">>), PyStr(<<"D","e","l","h","i">>)) }

\* one obligation with at most one penalty entry and at most one action
SingleAnalyses ==
    AnalysesOf(SeqsOf(RichObligations, 1),
               {<<>>} \cup SeqsOf(RichPenalties, 1),
               {<<>>, << Action(PyStr(<<"T","r","a","i","n"," ","s","t","a","f","f">>), PyStr(<<"H","I","G","H">>)) >>})

\* deadline texts: dates 0, 7, 30, 73 and 180 days after ClockEpochDay and one
\* before it, and the phrases the keyword heuristics know
DeadlineTexts ==
    { <<"2","0","2","6","-","0","1","-","0","1">>, <<"2","0","2","6","-","0","1","-","0","8">>, <<"3","1","/","0","1","/","2","0","2","6">>, <<"M","a","r","c","h"," ","1","5",","," ","2","0","2","6">>, <<"3","0"," ","J","u","n","e"," ","2","0","2","6">>,
      <<"3","1","-","1","2","-","2","0","2","5">>, <<"I","m","m","e","d","i","a","t","e","l","y">>, <<"w","i","t","h","i","n"," ","7"," ","d","a","y","s">>, <<"w","i","t","h","i","n"," ","3","0"," ","d","a","y","s">>,
      <<"W","i","t","h","i","n"," ","9","0"," ","d","a","y","s">>, <<"a","n","n","u","a","l"," ","f","i","l","i","n","g">> }

\* two obligations that differ in their deadline text only
DeadlinePairs ==
    AnalysesOf({ << Obligation(PyStr(<<"F","i","r","s","t">>), Missing, PyStr(d1), Missing),
                    Obligation(PyStr(<<"S","e","c","o","n","d">>), Missing, PyStr(d2), Missing) >> :
                 d1 \in DeadlineTexts, d2 \in DeadlineTexts },
               {<<>>}, {<<>>})

\* configurations: the default; weights that sum to 2.0 and to 0.5; thresholds
\* that are not strictly decreasing
ScoringConfigs ==
    { DefaultScoring,
      [DefaultScoring EXCEPT !.w_severity = 50, !.w_penalty = 50,
                             !.w_deadline = 50, !.w_frequency = 50],
      [DefaultScoring EXCEPT !.w_severity = 20, !.w_penalty = 10,
                             !.w_deadline = 10, !.w_frequency = 10],
      [DefaultScoring EXCEPT !.risk_medium = 60],
      [DefaultScoring EXCEPT !.risk_critical = 20, !.risk_high = 40,
                             !.risk_medium = 60, !.risk_low = 80] }

\* the batches of at most one record
SmallAnalyses ==
    AnalysesOf(SeqsUpTo(ObligationPool, 1), {<<>>}, {<<>>})
    \cup AnalysesOf({<<>>}, SeqsOf(PenaltyPool, 1), {<<>>})
    \cup AnalysesOf({<<>>}, {<<>>}, SeqsOf(ActionPool, 1))

\* profiles for the profitability engine: three that match no scheme (Udyam
\* held, not micro or small, not a new unit) and three that match some
ProfitProfiles ==
    { [NoProfile EXCEPT !.has_udyam = PyNum(1)],
      [NoProfile EXCEPT !.has_udyam = PyNum(1), !.sector = PyStr(<<"M","a","n","u","f","a","c","t","u","r","i","n","g">>),
                        !.enterprise_type = PyStr(<<"M","e","d","i","u","m">>)],
      [NoProfile EXCEPT !.has_udyam = PyNum(1), !.sector = PyStr(<<"h","a","n","d","l","o","o","m"," ","w","e","a","v","i","n","g">>)],
      [NoProfile EXCEPT !.has_udyam = PyNum(1), !.sector = PyStr(<<"R","e","t","a","i","l"," ","t","r","a","d","e">>)],
      NoProfile,
      [NoProfile EXCEPT !.sector = PyStr(<<"m","a","n","u","f","a","c","t","u","r","i","n","g">>),
                        !.enterprise_type = PyStr(<<"M","i","c","r","o">>),
                        !.owner_category = PyStr(<<"W","o","m","a","n">>),
                        !.is_new_unit = PyNum(1),
                        !.annual_turnover = PyNum(800000),
                        !.location_type = PyStr(<<"R","u","r","a","l">>)],
      [NoProfile EXCEPT !.has_udyam = PyNum(1), !.sector = PyStr(<<"s","e","r","v","i","c","e">>),
                        !.enterprise_type = PyStr(<<"s","m","a","l","l">>),
                        !.loan_amount = PyNum(200000)] }

ProfitAnalyses ==
    AnalysesOf({ <<>>, <<ScenarioA>> },
               {<<>>} \cup SeqsOf({ Penalty(PyStr(<<"L","a","t","e"," ","f","i","l","i","n","g"," ","o","f"," ","r","e","t","u","r","n">>), PyStr(<<"R","s","."," ","5","0",",","0","0","0">>)),
                                     Penalty(PyStr(<<"M","a","n","d","a","t","o","r","y"," ","a","u","d","i","t"," ","m","i","s","s","e","d">>), PyStr(<<"₹"," ","5"," ","l","a","k","h">>)),
                                     Penalty(PyStr(<<"R","e","t","u","r","n"," ","n","o","t"," ","f","i","l","e","d">>), PyStr(<<"A","s"," ","d","e","c","i","d","e","d",".">>)) }, 1),
               {<<>>})

\* the dicts ImpactEngine.calculate reads
RiskData(overall_score) == [overall_score |-> overall_score]

SustainabilityData(green_score, co2_saved_kg, hours_saved, productivity_multiplier, cost_saved_inr) ==
    [green_score |-> green_score, co2_saved_kg |-> co2_saved_kg,
     hours_saved |-> hours_saved, productivity_multiplier |-> productivity_multiplier,
     cost_saved_inr |-> cost_saved_inr]

ProfitabilityData(roi_multiplier, penalty_avoidance_inr, scheme_benefits_inr) ==
    [roi_multiplier |-> roi_multiplier, penalty_avoidance_inr |-> penalty_avoidance_inr,
     scheme_benefits_inr |-> scheme_benefits_inr]

\* the three sub-reports with every value zero
ZeroRisk == RiskData(PyNum(0))

ZeroSustainability == SustainabilityData(PyNum(0), PyNum(0), PyNum(0), PyNum(0), PyNum(0))

ZeroProfitability == ProfitabilityData(PyNum(0), PyNum(0), PyNum(0))

\* risk reports: overall_score 0, 30.0, 90.0, and a dict without the key
ImpactRisks == { ZeroRisk, RiskData(PyNum(300)), RiskData(PyNum(900)), RiskData(Missing) }

\* sustainability reports: zeroed; typical; saturating; a productivity
\* multiplier of 0.5; an empty dict
ImpactSustainability ==
    { ZeroSustainability,
      SustainabilityData(PyNum(425), PyNum(900), PyNum(75), PyNum(100), PyNum(5000)),
      SustainabilityData(PyNum(1000), PyNum(99900), PyNum(2000), PyNum(600), PyNum(100000)),
      SustainabilityData(PyNum(500), PyNum(0), PyNum(12), PyNum(50), PyNum(1000)),
      SustainabilityData(Missing, Missing, Missing, Missing, Missing) }

\* profitability reports: zeroed; typical; saturating; an empty dict
ImpactProfitability ==
    { ZeroProfitability,
      ProfitabilityData(PyNum(25), PyNum(40000), PyNum(500000)),
      ProfitabilityData(PyNum(100), PyNum(300000), PyNum(6000000)),
      ProfitabilityData(Missing, Missing, Missing) }

ImpactArgs ==
    { [risk_data |-> r, sustainability_data |-> s, profitability_data |-> p] :
      r \in ImpactRisks, s \in ImpactSustainability, p \in ImpactProfitability }

ImpactProfiles ==
    { NoProfile,
      Profile(PyStr(<<"M","a","n","u","f","a","c","t","u","r","i","n","g">>), PyStr(<<"D","e","l","h","i">>)),
      Profile(PyStr(<<"H","a","n","d","i","c","r","a","f","t">>), PyStr(<<"R","a","j","a","s","t","h","a","n">>)),
      Profile(PyStr(<<"I","T"," ","s","e","r","v","i","c","e","s">>), PyStr(<<"P","u","n","j","a","b">>)),
      Profile(PyStr(<<"R","e","t","a","i","l">>), PyStr(<<"G","o","a">>)) }

\* the largest yearly benefit, in rupees, of the dense range of benefits
MaxBase == 120

\* yearly benefits in rupees: every amount up to MaxBase, and some larger
\* amounts
ProjectionBases ==
    0..MaxBase \cup {1000, 11999, 12000, 12345, 144000, 987654, 7200000, 60000000}

\* the most actions of a batch whose ranking is examined
MaxActions == 2

\* obligations due in 90 days (by keyword), overdue, due today and far off
QuarterlyWarning ==
    Obligation(PyStr(<<"R","e","n","e","w"," ","t","r","a","d","e"," ","l","i","c","e","n","c","e">>), PyStr(<<"W","a","r","n","i","n","g">>), PyStr(<<"q","u","a","r","t","e","r","l","y">>), PyStr(<<"Q","U","A","R","T","E","R","L","Y">>))

OverdueCriminal ==
    Obligation(PyStr(<<"F","i","l","e"," ","G","S","T"," ","r","e","t","u","r","n">>), PyStr(<<"C","R","I","M","I","N","A","L">>), PyStr(<<"2","0","2","5","-","1","2","-","2","0">>), PyStr(<<"M","O","N","T","H","L","Y">>))

FarFine ==
    Obligation(PyStr(<<"D","i","s","p","l","a","y"," ","c","e","r","t","i","f","i","c","a","t","e">>), PyStr(<<"F","i","n","e">>), PyStr(<<"2","0","2","6","-","0","6","-","3","0">>), PyStr(<<"A","N","N","U","A","L","L","Y">>))

RankObligations == {QuarterlyWarning, OverdueCriminal, DueToday, FarFine}

RankActions ==
    { Action(PyStr(<<"F","i","l","e"," ","a","n","n","u","a","l"," ","r","e","t","u","r","n">>), PyStr(<<"H","I","G","H">>)),
      Action(PyStr(<<"P","a","y"," ","l","i","c","e","n","c","e"," ","f","e","e">>), PyStr(<<"H","I","G","H">>)) }

\* the batches of at most MaxRecords obligations and at most MaxActions actions
RankAnalyses ==
    AnalysesOf(SeqsUpTo(RankObligations, MaxRecords), {<<>>}, SeqsUpTo(RankActions, MaxActions))

\* actions whose names match an obligation of the pool below in another
\* case, match none, or are missing, with every kind of priority
MatchActions ==
    { Action(PyStr(<<"f","i","l","e"," ","g","s","t"," ","r","e","t","u","r","n">>), PyStr(<<"H","I","G","H">>)),
      Action(PyStr(<<"R","E","N","E","W"," ","T","R","A","D","E"," ","L","I","C","E","N","C","E">>), PyStr(<<"M","E","D","I","U","M">>)),
      Action(PyStr(<<"A","u","d","i","t"," ","b","o","o","k","s">>), PyStr(<<"L","O","W">>)),
      Action(PyStr(<<"T","r","a","i","n"," ","s","t","a","f","f">>), PyStr(<<"u","r","g","e","n","t">>)),
      Action(Missing, Missing) }

MatchObligations == {ScenarioA, ScenarioB}

\* the batches of at most MaxRecords obligations and at most MaxActions actions
MatchAnalyses ==
    AnalysesOf(SeqsUpTo(MatchObligations, MaxRecords), {<<>>},
               SeqsUpTo(MatchActions, MaxActions))

\* amount texts: an optional currency prefix, a decimal number, and an
\* optional unit or an ordinary word
AmountPrefixes == { <<>>, <<"R","s"," ">>, <<"R","s","."," ">>, <<"₹">> }

AmountNumbers == { <<"2">>, <<"5","0">>, <<"2","0","0">>, <<"1",".","5">>, <<"0",".","2","5">> }

AmountSuffixes ==
    { <<>>, <<" ","c","r","o","r","e">>, <<" ","l","a","k","h">>, <<" ","L","a","k","h">>, <<" ","t","h","o","u","s","a","n","d">>, <<" ","l","a","t","e"," ","f","e","e">>, <<" ","p","e","r"," ","d","a","y">> }

AmountParts ==
    [prefix : AmountPrefixes, number : AmountNumbers, suffix : AmountSuffixes]

\* the most policies, and the most schemes, of a sustainability request
MaxDocs == 9

(***************************************************************************)
(* State                                                                   *)
(***************************************************************************)

VARIABLES
    pc,           \* where the run stands
    config,       \* config.scoring, the ScoringConfig of the process
    scorer,       \* the ComplianceRiskScorer: built, and the configuration it holds
    analysis,     \* the analysis dict of the request
    profile,      \* the business profile of the request
    now,          \* the clock
    report,       \* what the first call of score() returned
    again,        \* what a second call of score() with the same arguments returned
    num_policies, \* the num_policies argument of analyze()
    profit,       \* what analyze() returned
    arg,          \* the argument of a helper called on its own
    result        \* what the helper returned

vars == <<pc, config, scorer, analysis, profile, now, report, again,
          num_policies, profit, arg, result>>

NoCall == Raised("not called")

InitWith(cfgs, analyses, profiles, clocks, policies, args) ==
    /\ pc = "new"
    /\ config \in cfgs
    /\ scorer = [built |-> FALSE, w |-> DefaultScoring]
    /\ analysis \in analyses
    /\ profile \in profiles
    /\ now \in clocks
    /\ report = NoCall
    /\ again = NoCall
    /\ num_policies \in policies
    /\ profit = NoProfit("not called")
    /\ arg \in args
    /\ result = ""

(***************************************************************************)
(* Operations                                                              *)
(***************************************************************************)

\* ComplianceRiskScorer.__init__: takes config.scoring as it is
Construct ==
    /\ pc = "new"
    /\ scorer' = [built |-> TRUE, w |-> config]
    /\ pc' = "ready"
    /\ UNCHANGED <<config, analysis, profile, now, report, again,
                   num_policies, profit, arg, result>>

\* scorer.score(analysis, business_profile)
ScoreCall ==
    /\ pc = "ready"
    /\ report' = Score(scorer.w, analysis, profile, now)
    /\ pc' = "scored"
    /\ UNCHANGED <<config, scorer, analysis, profile, now, again,
                   num_policies, profit, arg, result>>

\* time passes between two calls
Tick ==
    /\ pc = "scored"
    /\ now < MaxNow
    /\ now' = now + 1
    /\ UNCHANGED <<pc, config, scorer, analysis, profile, report, again,
                   num_policies, profit, arg, result>>

\* scorer.score(analysis, business_profile) once more, same arguments
ScoreAgain ==
    /\ pc = "scored"
    /\ again' = Score(scorer.w, analysis, profile, now)
    /\ pc' = "rescored"
    /\ UNCHANGED <<config, scorer, analysis, profile, now, report,
                   num_policies, profit, arg, result>>

\* ProfitabilityOptimizer().analyze(analysis, business_profile, num_policies)
AnalyzeCall ==
    /\ pc = "new"
    /\ profit' = Analyze(analysis, profile, num_policies, now)
    /\ pc' = "analyzed"
    /\ UNCHANGED <<config, scorer, analysis, profile, now, report, again,
                   num_policies, arg, result>>

\* ComplianceRiskScorer()._band(arg / 10) under the default thresholds
ApplyBand ==
    /\ pc = "new"
    /\ result' = Band(DefaultScoring, arg, 10)
    /\ pc' = "applied"
    /\ UNCHANGED <<config, scorer, analysis, profile, now, report, again,
                   num_policies, profit, arg>>

\* ImpactEngine().calculate(risk_data, sustainability_data,
\* profitability_data, business_profile, num_policies)
CalculateCall ==
    /\ pc = "new"
    /\ result' = Calculate(arg.risk_data, arg.sustainability_data,
                           arg.profitability_data, profile, num_policies)
    /\ pc' = "impact"
    /\ UNCHANGED <<config, scorer, analysis, profile, now, report, again,
                   num_policies, profit, arg>>

\* the projection part of analyze(): _multi_year_projection(arg), the
\* npv_5yr_inr taken from it and _break_even_months(arg), for a yearly
\* projection of arg rupees
ProjectCall ==
    /\ pc = "new"
    /\ result' = [multi_year_projections |-> MultiYearProjection(arg),
                  npv_5yr_inr |-> Npv5yr(MultiYearProjection(arg)),
                  break_even_months |-> BreakEvenMonths(arg, 12)]
    /\ pc' = "projected"
    /\ UNCHANGED <<config, scorer, analysis, profile, now, report, again,
                   num_policies, profit, arg>>

\* the two amount parsers called on the same text:
\* ComplianceRiskScorer._parse_penalty_amount and
\* ProfitabilityOptimizer._parse_amount
ParseCall ==
    /\ pc = "new"
    /\ result' = [penalty_amount |->
                      ParsePenaltyAmount(PyStr(arg.prefix \o arg.number \o arg.suffix)),
                  amount |->
                      ParseAmount(PyStr(arg.prefix \o arg.number \o arg.suffix))]
    /\ pc' = "parsed"
    /\ UNCHANGED <<config, scorer, analysis, profile, now, report, again,
                   num_policies, profit, arg>>

\* SustainabilityEngine.calculate(num_policies, arg) for arg schemes
SustainabilityCall ==
    /\ pc = "new"
    /\ result' = SustainabilityCalculate(num_policies, arg)
    /\ pc' = "green"
    /\ UNCHANGED <<config, scorer, analysis, profile, now, report, again,
                   num_policies, profit, arg>>

(***************************************************************************)
(* Specifications                                                          *)
(***************************************************************************)

NoAnalysis == AnalysesOf({<<>>}, {<<>>}, {<<>>})

\* a scorer built from the default configuration scores a batch twice
Init == InitWith({DefaultScoring}, Analyses, ProfilePool, {0}, {0}, {0})

Next == Construct \/ ScoreCall \/ Tick \/ ScoreAgain

Spec == Init /\ [][Next]_vars

\* a scorer built from the default configuration scores one obligation
InitObligation ==
    InitWith({DefaultScoring}, SingleAnalyses, RichProfiles,
             0..(HalfDaysPerDay - 1), {0}, {0})

NextScore == Construct \/ ScoreCall

SpecObligation == InitObligation /\ [][NextScore]_vars

\* two deadlines are scored at the same instant
InitDeadline ==
    InitWith({DefaultScoring}, DeadlinePairs, {NoProfile},
             0..(HalfDaysPerDay - 1), {0}, {0})

SpecDeadline == InitDeadline /\ [][NextScore]_vars

\* a scorer is built from whatever configuration the process holds
InitConfig == InitWith(ScoringConfigs, SmallAnalyses, ProfilePool, {0}, {0}, {0})

SpecConfig == InitConfig /\ [][Next]_vars

\* the band function on every score from 0 to MaxScoreTenths / 10
InitBand ==
    InitWith({DefaultScoring}, NoAnalysis, {NoProfile}, {0}, {0}, 0..MaxScoreTenths)

NextBand == ApplyBand

SpecBand == InitBand /\ [][NextBand]_vars

\* the profitability engine analyses a request
InitProfit ==
    InitWith({DefaultScoring}, ProfitAnalyses, ProfitProfiles, {0}, 0..MaxPolicies, {0})

NextProfit == AnalyzeCall

SpecProfit == InitProfit /\ [][NextProfit]_vars

\* the impact engine combines three sub-reports
InitImpact ==
    InitWith({DefaultScoring}, NoAnalysis, ImpactProfiles, {0}, 0..MaxPolicies, ImpactArgs)

NextImpact == CalculateCall

SpecImpact == InitImpact /\ [][NextImpact]_vars

\* the multi-year projection of a yearly benefit
InitProjection ==
    InitWith({DefaultScoring}, NoAnalysis, {NoProfile}, {0}, {0}, ProjectionBases)

NextProjection == ProjectCall

SpecProjection == InitProjection /\ [][NextProjection]_vars

\* a scorer built from the default configuration ranks a batch
InitRanking == InitWith({DefaultScoring}, RankAnalyses, {NoProfile}, {0}, {0}, {0})

SpecRanking == InitRanking /\ [][NextScore]_vars

\* a scorer built from the default configuration scores obligations and
\* compliance actions that may carry their names
InitActions == InitWith({DefaultScoring}, MatchAnalyses, {NoProfile}, {0}, {0}, {0})

SpecActions == InitActions /\ [][NextScore]_vars

\* both amount parsers read an amount text
InitParse == InitWith({DefaultScoring}, NoAnalysis, {NoProfile}, {0}, {0}, AmountParts)

NextParse == ParseCall

SpecParse == InitParse /\ [][NextParse]_vars

\* the sustainability engine rates a session of some policies and schemes
InitGreen ==
    InitWith({DefaultScoring}, NoAnalysis, {NoProfile}, {0}, 0..MaxDocs, 0..MaxDocs)

NextGreen == SustainabilityCall

SpecGreen == InitGreen /\ [][NextGreen]_vars

(***************************************************************************)
(* Orchestrator (agents/orchestrator.py) and the scoring step of           *)
(* run_policy_analysis_pipeline (main.py).  The agents are language-model  *)
(* calls: each is modelled by the context field it writes, and what the    *)
(* verification agent reports and which agent raises are inputs of the     *)
(* run.  Confidence scores are in hundredths.  `analysis` is the reasoning *)
(* agent's policy analysis, `profile` the caller's business profile.       *)
(***************************************************************************)

\* the AgentState of each stage, in the order run_pipeline enters them
Stages ==
    <<"ingesting", "reasoning", "planning", "scoring", "executing", "verifying",
      "explaining">>

\* EthicalAIFramework._assess_confidence(score)
AssessConfidence(score) ==
    IF score >= 80 THEN "HIGH"
    ELSE IF score >= 50 THEN "MEDIUM"
    ELSE IF score > 0 THEN "LOW"
    ELSE "UNKNOWN"

\* a report slot: its "error" entry (or "none"), its "fallback" entry and its score
Slot(error, fallback, value) == [error |-> error, fallback |-> fallback, value |-> value]

\* PipelineContext(raw_input=..., business_profile=business_profile or {}) with
\* self.state next to it; `entered` lists the states run_pipeline has set
PipelineContext(business_profile) ==
    LET EmptySlot == Slot("none", FALSE, -1)
    IN
    [state |-> "idle", entered |-> <<>>,
     business_profile |-> business_profile,
     extracted_text |-> "", policy_analysis |-> CHOOSE a \in NoAnalysis : TRUE,
     eligible_schemes |-> 0, compliance_plan |-> "", execution_output |-> "",
     verification_result |-> [written |-> FALSE, confidence_score |-> 0],
     explanation |-> "",
     risk_report |-> EmptySlot, sustainability_report |-> EmptySlot,
     profitability_report |-> EmptySlot,
     ethics_confidence |-> 0, ethics_level |-> "",
     errors |-> 0]

\* SustainabilityEngine._sdg_alignment(profile): .lower() of a field that is not a string
SdgAlignmentExc(business_profile) ==
    IF business_profile = NoProfile THEN "none"
    ELSE IF Get(business_profile.sector, PyStr(<<>>)).t # "str" THEN "AttributeError"
    ELSE IF Get(business_profile.owner_category, PyStr(<<>>)).t # "str"
         THEN "AttributeError"
    ELSE "none"

\* what each try block of a caller stores for its engine: the genuine report,
\* or {"error": str(e), <score>: 0}
EngineSlot(exc, score) ==
    IF exc # "none" THEN Slot(exc, FALSE, 0) ELSE Slot("none", FALSE, score)

\* Orchestrator._run_scoring_engines(): four try blocks, one per engine, then
\* the ethics evaluation with the confidence it finds in verification_result
RunScoringEngines(ctx, w, clock) ==
    LET verification == ctx.verification_result
        confidence == IF verification.written THEN verification.confidence_score ELSE 70
        Store(risk, sus, prof) ==
            [ctx EXCEPT !.risk_report = risk,
                        !.sustainability_report = sus,
                        !.profitability_report = prof,
                        !.ethics_confidence = confidence,
                        !.ethics_level = AssessConfidence(confidence)]
        Slots(risk_report, sus_exc, sus_report, prof_report) ==
            Store(EngineSlot(risk_report.exc, risk_report.overall_score),
                  EngineSlot(sus_exc, sus_report.green_score),
                  EngineSlot(prof_report.exc, prof_report.total_roi_inr))
    IN  Slots(Score(w, ctx.policy_analysis, NoProfile, clock),
              SdgAlignmentExc(ctx.business_profile),
              SustainabilityCalculate(1, ctx.eligible_schemes),
              Analyze(ctx.policy_analysis, ctx.business_profile, 1, clock))

\* what the agent of stage k stores in the context when it returns
AgentResult(ctx, k, policy_analysis, schemes, confidence) ==
    CASE k = 1 -> [ctx EXCEPT !.extracted_text = "text"]
      [] k = 2 -> [ctx EXCEPT !.policy_analysis = policy_analysis,
                              !.eligible_schemes = schemes]
      [] k = 3 -> [ctx EXCEPT !.compliance_plan = "plan"]
      [] k = 5 -> [ctx EXCEPT !.execution_output = "output"]
      [] k = 6 -> [ctx EXCEPT !.verification_result =
                                  [written |-> TRUE, confidence_score |-> confidence]]
      [] k = 7 -> [ctx EXCEPT !.explanation = "explanation", !.state = "complete"]

\* step 3 of run_policy_analysis_pipeline: one try block around the three
\* engines; its except branch rebuilds every slot from the analysis, whose
\* compliance_obligations, risk_assessment and matched_schemes keys are absent
MainScoringStep(analysis_data, business_profile, w, clock) ==
    LET actions == Len(analysis_data.compliance_actions)
        Store(risk, exc, sus, prof) ==
            IF risk.exc # "none" \/ exc # "none" \/ prof.exc # "none"
            THEN [risk_score |-> Slot("none", TRUE, 10 * Min(100, 50 + 0 + 0)),
                  sustainability |-> Slot("none", TRUE, 10 * Min(100, 45 + 0 + Min(actions * 3, 15))),
                  profitability |-> Slot("none", TRUE, Max(10000, 0 * 50000))]
            ELSE [risk_score |-> EngineSlot(risk.exc, risk.overall_score),
                  sustainability |-> EngineSlot(exc, sus.green_score),
                  profitability |-> EngineSlot(prof.exc, prof.total_roi_inr)]
    IN  Store(Score(w, analysis_data, NoProfile, clock),
              SdgAlignmentExc(business_profile),
              SustainabilityCalculate(1, actions),
              Analyze(analysis_data, business_profile, 1, clock))

\* Orchestrator.run_pipeline(raw_input, business_profile) up to its first stage
RunPipeline ==
    /\ pc = "new"
    /\ result' = PipelineContext(profile)
    /\ pc' = "idle"
    /\ UNCHANGED <<config, scorer, analysis, profile, now, report, again,
                   num_policies, profit, arg>>

\* stage k of run_pipeline, k # 4: set the state, await the agent, store what it
\* returns; an agent that raises ends the run in the ERROR state
AgentStage(k) ==
    /\ pc = IF k = 1 THEN "idle" ELSE Stages[k - 1]
    /\ IF arg.raises = Stages[k]
       THEN /\ result' = [result EXCEPT !.state = "error",
                                        !.entered = Append(@, Stages[k]),
                                        !.errors = @ + 1]
            /\ pc' = "error"
       ELSE /\ result' = AgentResult([result EXCEPT !.state = Stages[k],
                                                    !.entered = Append(@, Stages[k])],
                                     k, analysis, arg.schemes, arg.confidence)
            /\ pc' = IF k = 7 THEN "complete" ELSE Stages[k]
    /\ UNCHANGED <<config, scorer, analysis, profile, now, report, again,
                   num_policies, profit, arg>>

\* stage 4 of run_pipeline: await self._run_scoring_engines()
ScoringStage ==
    /\ pc = "planning"
    /\ result' = RunScoringEngines([result EXCEPT !.state = "scoring",
                                                  !.entered = Append(@, "scoring")],
                                   config, now)
    /\ pc' = "scoring"
    /\ UNCHANGED <<config, scorer, analysis, profile, now, report, again,
                   num_policies, profit, arg>>

\* run_policy_analysis_pipeline reaches its step 3 with the same analysis and profile
MainScoringCall ==
    /\ pc = "new"
    /\ result' = MainScoringStep(analysis, profile, config, now)
    /\ pc' = "main"
    /\ UNCHANGED <<config, scorer, analysis, profile, now, report, again,
                   num_policies, profit, arg>>

\* the runs of the pipeline: what the reasoning agent found, whose profile it
\* is, what the verification agent reports and which agent raises
PipelineAnalyses ==
    AnalysesOf({<<>>, <<ScenarioA>>, <<WrongTypedSeverity>>, <<ScenarioA, ScenarioB>>},
               {<<>>}, {<<>>, <<Action(PyStr(<<"F","i","l","e"," ","G","S","T"," ","r","e","t","u","r","n">>), PyStr(<<"H","I","G","H">>))>>})

PipelineProfiles ==
    {NoProfile, Profile(PyStr(<<"h","a","n","d","i","c","r","a","f","t">>), PyStr(<<"R","a","j","a","s","t","h","a","n">>)),
     Profile(PyNum(5), Missing), [NoProfile EXCEPT !.enterprise_type = PyNum(5)]}

PipelineRuns ==
    [confidence : {30, 90}, raises : {"none", "reasoning", "verifying"}, schemes : {0, 2}]

InitPipeline ==
    InitWith({DefaultScoring}, PipelineAnalyses, PipelineProfiles, {0}, {1}, PipelineRuns)

NextPipeline ==
    \/ RunPipeline
    \/ \E k \in {1, 2, 3, 5, 6, 7} : AgentStage(k)
    \/ ScoringStage
    \/ MainScoringCall

SpecPipeline == InitPipeline /\ [][NextPipeline]_vars

(***************************************************************************)
(* Concurrent callers of one ComplianceRiskScorer                          *)
(*   Threads that share an Orchestrator take its scorer through the lazy   *)
(*   getter and call score() on it.  A call is cut where another thread    *)
(*   can run in between: after the getter's test, after the getter's       *)
(*   return, after the loops that fill the local list obligation_risks,    *)
(*   after its sort.  `scorer` is the shared engine, `result` maps each    *)
(*   caller to the locals of its call.  Odd callers score `analysis` for   *)
(*   `profile`, even callers score `arg` for no profile.                   *)
(***************************************************************************)

NumCallers == 2

Callers == 1..NumCallers

InputOf(c) == IF c % 2 = 1 THEN analysis ELSE arg

ProfileOf(c) == IF c % 2 = 1 THEN profile ELSE NoProfile

\* the locals of a call that has not begun
NotCalled ==
    [at |-> "start", saw_none |-> FALSE, overlapped |-> FALSE, w |-> DefaultScoring,
     sector |-> 0, regional |-> 0, obligation_risks |-> <<>>, report |-> NoCall]

\* score() up to its sort: the multipliers, the penalty map and the two loops
\* that append to obligation_risks
UnsortedRisks(w, analysis_data, business_profile, clock) ==
    LET Outcome(sector, regional, pm, real, syn) ==
            IF sector.exc # "none" THEN [exc |-> sector.exc]
            ELSE IF regional.exc # "none" THEN [exc |-> regional.exc]
            ELSE IF pm.exc # "none" THEN [exc |-> pm.exc]
            ELSE IF real.exc # "none" THEN [exc |-> real.exc]
            ELSE IF syn.exc # "none" THEN [exc |-> syn.exc]
            ELSE [exc |-> "none", sector |-> sector.val, regional |-> regional.val,
                  risks |-> real.risks \o syn.risks]
        Actions(sector, regional, pm, real) ==
            Outcome(sector, regional, pm, real,
                    ScoreActions(w, analysis_data.compliance_actions, 1,
                                 {Lower(r.obligation_name) : r \in Range(real.risks)}))
        Obligations(sector, regional, pm) ==
            Actions(sector, regional, pm,
                    ScoreObligations(w, analysis_data.obligations, 1, pm.map,
                                     sector.val, regional.val, clock))
    IN  Obligations(GetSectorMultiplier(business_profile),
                    GetRegionalMultiplier(business_profile),
                    BuildPenaltyMap(analysis_data.penalties))

\* a list kept on the engine object instead: every call sees the last one filled
KeepRisksOnEngine(calls, c, scored) ==
    [k \in DOMAIN calls |->
        IF k = c
        THEN [calls[k] EXCEPT !.at = "scored", !.sector = scored.sector,
                              !.regional = scored.regional,
                              !.obligation_risks = scored.risks]
        ELSE [calls[k] EXCEPT !.obligation_risks = scored.risks]]

\* obligation_risks is a local of the call: filling it touches no other call
KeepRisks(calls, c, scored) ==
    [calls EXCEPT ![c] = [@ EXCEPT !.at = "scored", !.sector = scored.sector,
                                   !.regional = scored.regional,
                                   !.obligation_risks = scored.risks]]

\* score() after its sort: the ComplianceRiskReport built from the sorted list
RiskReport(w, sector, regional, risks, clock) ==
    LET Report(overall, band) ==
            [exc |-> "none",
             overall_score |-> RoundTenths(overall.num, 10 * overall.den),
             overall_band |-> band,
             obligation_risks |-> risks,
             top_risks |-> SubSeq(risks, 1, Min(3, Len(risks))),
             score_breakdown |-> FactorAverages(risks),
             generated_at |-> clock,
             recommendations |-> GenerateRecommendations(risks, band),
             sector_multiplier |-> sector,
             regional_multiplier |-> regional,
             total_expected_penalty_inr |->
                 SumOver([i \in 1..Len(risks) |-> risks[i].expected_penalty_inr],
                         Len(risks)),
             risk_velocity |-> ComputeRiskVelocity(risks)]
        Overall(overall) == Report(overall, Band(w, overall.num, 10 * overall.den))
    IN  Overall(ComputeOverall(risks))

\* the callers are started on a fresh Orchestrator
StartCallers ==
    /\ pc = "new"
    /\ result' = [c \in Callers |-> NotCalled]
    /\ pc' = "threads"
    /\ UNCHANGED <<config, scorer, analysis, profile, now, report, again,
                   num_policies, profit, arg>>

\* _get_risk_scorer(): if self._risk_scorer is None
TestScorer(c) ==
    /\ pc = "threads"
    /\ result[c].at = "start"
    /\ result' = [result EXCEPT ![c] = [@ EXCEPT !.at = "tested",
                                                 !.saw_none = ~scorer.built]]
    /\ UNCHANGED <<pc, config, scorer, analysis, profile, now, report, again,
                   num_policies, profit, arg>>

\* _get_risk_scorer(): self._risk_scorer = ComplianceRiskScorer() if the test
\* found None, then return self._risk_scorer
GetRiskScorer(c) ==
    /\ pc = "threads"
    /\ result[c].at = "tested"
    /\ scorer' = IF result[c].saw_none THEN [built |-> TRUE, w |-> config] ELSE scorer
    /\ result' = [result EXCEPT ![c] = [@ EXCEPT !.at = "got", !.w = scorer'.w]]
    /\ UNCHANGED <<pc, config, analysis, profile, now, report, again,
                   num_policies, profit, arg>>

\* score() up to its sort; an exception ends the call
FillRisks(c) ==
    LET Filled(scored) ==
            IF scored.exc # "none"
            THEN [result EXCEPT ![c] = [@ EXCEPT !.at = "done",
                                                 !.report = Raised(scored.exc)]]
            ELSE KeepRisks(result, c, scored)
        Overlap(calls) ==
            [calls EXCEPT ![c] = [@ EXCEPT !.overlapped =
                \E k \in Callers \ {c} : result[k].at \in {"scored", "sorted"}]]
    IN  /\ pc = "threads"
        /\ result[c].at = "got"
        /\ result' = Overlap(Filled(UnsortedRisks(result[c].w, InputOf(c), ProfileOf(c), now)))
        /\ UNCHANGED <<pc, config, scorer, analysis, profile, now, report, again,
                       num_policies, profit, arg>>

\* obligation_risks.sort(key=lambda o: o.weighted_score, reverse=True)
SortStep(c) ==
    /\ pc = "threads"
    /\ result[c].at = "scored"
    /\ result' = [result EXCEPT ![c] = [@ EXCEPT !.at = "sorted",
                     !.obligation_risks = SortRisks(@)]]
    /\ UNCHANGED <<pc, config, scorer, analysis, profile, now, report, again,
                   num_policies, profit, arg>>

\* the rest of score(): return ComplianceRiskReport(...)
ReturnReport(c) ==
    /\ pc = "threads"
    /\ result[c].at = "sorted"
    /\ result' = [result EXCEPT ![c] = [@ EXCEPT !.at = "done",
                     !.report = RiskReport(result[c].w, result[c].sector,
                                           result[c].regional,
                                           result[c].obligation_risks, now)]]
    /\ UNCHANGED <<pc, config, scorer, analysis, profile, now, report, again,
                   num_policies, profit, arg>>

ConcurrentAnalyses ==
    AnalysesOf({<<>>, <<DueToday>>, <<WrongTypedSeverity>>}, {<<>>}, {<<>>})
      \cup AnalysesOf({<<ScenarioB, ScenarioA>>}, {<<>>},
                      {<<Action(PyStr(<<"T","r","a","i","n"," ","s","t","a","f","f">>), PyStr(<<"H","I","G","H">>))>>})

InitConcurrent ==
    InitWith({DefaultScoring}, ConcurrentAnalyses,
             {NoProfile, Profile(PyStr(<<"h","a","n","d","i","c","r","a","f","t">>), PyStr(<<"R","a","j","a","s","t","h","a","n">>))},
             {0}, {1}, ConcurrentAnalyses)

NextConcurrent ==
    \/ StartCallers
    \/ \E c \in Callers :
          \/ TestScorer(c)
          \/ GetRiskScorer(c)
          \/ FillRisks(c)
          \/ SortStep(c)
          \/ ReturnReport(c)

SpecConcurrent == InitConcurrent /\ [][NextConcurrent]_vars

(***************************************************************************)
(* Properties                                                              *)
(***************************************************************************)

\* the risks of the report that come from obligations, and from actions
RealRisks == SelectSeq(report.obligation_risks, LAMBDA r : r.remediation_hint # "REVIEW")

SyntheticRisks == SelectSeq(report.obligation_risks, LAMBDA r : r.remediation_hint = "REVIEW")

Scored == pc = "scored" /\ report.exc = "none"

InRange(r) ==
    /\ r.severity_score \in 0..100
    /\ r.penalty_score \in 0..100
    /\ r.deadline_score \in 0..100
    /\ r.frequency_score \in 0..100
    /\ r.weighted_score \in 0..1000

\* C1: under the default weights every sub-score of every ObligationRisk of a
\* report, and its weighted_score, lies in [0, 100], for the risks scored from
\* obligations and for the synthetic risks built from compliance actions.
C1_ScoresInRange ==
    Scored => \A i \in 1..Len(report.obligation_risks) : InRange(report.obligation_risks[i])

\* a report holding a synthetic risk and a real risk whose composite was
\* clamped to 100
C1_ClampedAndSynthetic ==
    /\ Scored
    /\ Len(SyntheticRisks) = 1
    /\ Len(RealRisks) = 1
    /\ RealRisks[1].weighted_score = 1000
    /\ RealRisks[1].penalty_score = 100
    /\ InRange(SyntheticRisks[1])

\* C2: of two deadlines scored at the same instant, the one with fewer (non-
\* negative) days_remaining never has the lower deadline_score, whichever of
\* the date parse and the keyword heuristic produced each; and a deadline
\* with negative days_remaining has deadline_score 100.
C2_DeadlineMonotone ==
    Scored =>
        \A i, j \in 1..Len(report.obligation_risks) :
            LET a == report.obligation_risks[i]
                b == report.obligation_risks[j]
            IN  /\ (a.days_remaining.known /\ b.days_remaining.known
                        /\ 0 <= a.days_remaining.n
                        /\ a.days_remaining.n <= b.days_remaining.n)
                    => a.deadline_score >= b.deadline_score
                /\ (a.days_remaining.known /\ a.days_remaining.n < 0)
                    => a.deadline_score = 100

\* C3: score() returns a report whatever the penalty_amount and deadline
\* texts are; an amount or a date it cannot parse never aborts the call.
C3_NeverAborts == pc = "scored" => report.exc = "none"

\* the record is a dict whose fields, where present, are strings
WellFormedObligation(o) ==
    /\ o.kind = "dict"
    /\ \A v \in {o.obligation, o.severity_if_ignored, o.deadline, o.frequency} :
           v.t \in {"str", "missing"}

\* every penalty amount of the batch is one _parse_penalty_amount accepts
AmountsParse ==
    \A k \in 1..Len(analysis.penalties) :
        LET p == analysis.penalties[k]
        IN  p.kind = "dict" => ParsePenaltyAmount(Get(p.penalty_amount, PyStr(<<>>))).exc # "ValueError"

\* C4: a malformed obligation or penalty record is skipped: score() still
\* returns a report, and the report holds a risk for every well-formed
\* obligation of the batch.
C4_MalformedSkipped ==
    (pc = "scored" /\ AmountsParse) =>
        /\ report.exc = "none"
        /\ \A k \in 1..Len(analysis.obligations) :
               WellFormedObligation(analysis.obligations[k]) =>
                   \E i \in 1..Len(RealRisks) :
                       RealRisks[i].obligation_name = analysis.obligations[k].obligation.s

ValidConfig(w) ==
    /\ w.w_severity + w.w_penalty + w.w_deadline + w.w_frequency = 100
    /\ w.risk_critical > w.risk_high
    /\ w.risk_high > w.risk_medium
    /\ w.risk_medium > w.risk_low

\* C5: a scorer is never built from weights that do not sum to 1.0 or from
\* thresholds that are not strictly decreasing, so no request is scored
\* under such a configuration.
C5_ConfigValidated == scorer.built => ValidConfig(scorer.w)

\* C6: two calls of score() with the same arguments return the same report,
\* at whatever two times they are made (generated_at, the time stamp of the
\* report, is left out of the comparison).
C6_Deterministic ==
    pc = "rescored" =>
        [report EXCEPT !.generated_at = 0] = [again EXCEPT !.generated_at = 0]

\* C7: with the default thresholds _band gives CRITICAL iff s >= 80, HIGH iff
\* 60 <= s < 80, MEDIUM iff 40 <= s < 60, LOW iff 20 <= s < 40 and MINIMAL
\* iff s < 20 (s = arg / 10): a score on a threshold gets the higher band.
C7_BandBoundaries ==
    pc = "applied" =>
        /\ result = "CRITICAL" <=> arg >= 800
        /\ result = "HIGH" <=> (600 <= arg /\ arg < 800)
        /\ result = "MEDIUM" <=> (400 <= arg /\ arg < 600)
        /\ result = "LOW" <=> (200 <= arg /\ arg < 400)
        /\ result = "MINIMAL" <=> arg < 200

\* a score exactly on a threshold got the higher band
C7_OnThreshold ==
    /\ pc = "applied"
    /\ arg = 600
    /\ result = "HIGH"

\* Scenario A: severity "CRIMINAL", a deadline 2 days ahead, frequency "DAILY"
IsScenarioA ==
    /\ Scored
    /\ Len(RealRisks) = 1
    /\ analysis.obligations[1].severity_if_ignored = PyStr(<<"C","R","I","M","I","N","A","L">>)
    /\ analysis.obligations[1].deadline = PyStr(<<"2","0","2","6","-","0","1","-","0","3">>)
    /\ analysis.obligations[1].frequency = PyStr(<<"D","A","I","L","Y">>)

\* the multiplier applied to the composite, in ten-thousandths
AppliedMultiplier ==
    Min(report.sector_multiplier * report.regional_multiplier, MULTIPLIER_CAP)

\* C8, as stated: Scenario A gets a composite >= 90 and band CRITICAL whatever
\* the penalty entries and the business profile are.
C8_ScenarioA_AnyProfile ==
    IsScenarioA =>
        /\ RealRisks[1].weighted_score >= 900
        /\ RealRisks[1].risk_band = "CRITICAL"

\* C8, amended: Scenario A gets a composite >= 90 and band CRITICAL when the
\* sector and regional multipliers multiply to at least 1.125; whatever the
\* penalty entries and the profile are, the composite is >= 64.8 and the band
\* is HIGH or CRITICAL.
C8_ScenarioA ==
    IsScenarioA =>
        /\ RealRisks[1].weighted_score >= 648
        /\ RealRisks[1].risk_band \in {"HIGH", "CRITICAL"}
        /\ AppliedMultiplier >= 11250 =>
               /\ RealRisks[1].weighted_score >= 900
               /\ RealRisks[1].risk_band = "CRITICAL"

\* Scenario A for a handicraft unit in Rajasthan with a small matching fine:
\* the composite is 64.8 and the band HIGH
C8_ScenarioA_LowMultiplier ==
    /\ IsScenarioA
    /\ AppliedMultiplier = 8100
    /\ RealRisks[1].penalty_score = 25
    /\ RealRisks[1].weighted_score = 648
    /\ RealRisks[1].risk_band = "HIGH"

SharesLongWord(name, violation) ==
    \E x \in Range(Split(Lower(name))) :
        Len(x) > 3 /\ x \in Range(Split(Lower(violation)))

\* Scenario B: no penalty violation shares a word longer than 3 characters
\* with the obligation's name, there is no deadline text, frequency "ANNUALLY"
IsScenarioB ==
    /\ Scored
    /\ Len(RealRisks) = 1
    /\ analysis.obligations[1].deadline = Missing
    /\ analysis.obligations[1].frequency = PyStr(<<"A","N","N","U","A","L","L","Y">>)
    /\ \A k \in 1..Len(analysis.penalties) :
           ~SharesLongWord(analysis.obligations[1].obligation.s,
                           analysis.penalties[k].violation.s)

\* C9: Scenario B is scored with penalty_score 30, deadline_score 40,
\* days_remaining null and frequency_score 30.
C9_ScenarioB ==
    IsScenarioB =>
        /\ RealRisks[1].penalty_score = 30
        /\ RealRisks[1].deadline_score = 40
        /\ RealRisks[1].days_remaining = NoDays
        /\ RealRisks[1].frequency_score = 30

\* Scenario B with a penalty entry whose violation shares only the 3-letter
\* word "gst" with the obligation's name
C9_ScenarioB_ShortWordOnly ==
    /\ IsScenarioB
    /\ analysis.obligations[1].obligation = PyStr(<<"P","a","y"," ","G","S","T"," ","d","u","e","s">>)
    /\ Len(analysis.penalties) = 1
    /\ analysis.penalties[1].violation = PyStr(<<"L","a","t","e"," ","G","S","T"," ","p","a","y","m","e","n","t">>)
    /\ RealRisks[1].penalty_score = 30

\* Scenario C: no penalty entries, and a profile that matches no scheme
IsScenarioC ==
    /\ pc = "analyzed"
    /\ analysis.penalties = <<>>
    /\ GetApplicableSchemes(profile) = [exc |-> "none", ids |-> <<>>]

\* C10: in Scenario C analyze() returns a report with one default penalty
\* estimate, total_penalty_avoidance_inr > 0 and total_roi_inr >= 0, for
\* every num_policies >= 0 and every sector.
C10_ScenarioC ==
    IsScenarioC =>
        /\ profit.exc = "none"
        /\ Len(profit.penalty_avoidances) = 1
        /\ profit.scheme_benefits = <<>>
        /\ profit.total_penalty_avoidance_inr > 0
        /\ profit.total_roi_inr >= 0

\* Scenario C with no policies at all, for a handloom unit: the return is the
\* sector-adjusted default estimate alone
C10_ScenarioC_NoPolicies ==
    /\ IsScenarioC
    /\ num_policies = 0
    /\ profit.sector_multiplier = 120
    /\ profit.total_cost_savings_inr = 0
    /\ profit.total_roi_inr = profit.total_penalty_avoidance_inr


\* the three sub-reports of the call are the zeroed ones
IsScenarioD ==
    /\ arg.risk_data = ZeroRisk
    /\ arg.sustainability_data = ZeroSustainability
    /\ arg.profitability_data = ZeroProfitability

\* C11: Scenario D: with all three sub-reports zeroed, calculate() raises
\* nothing and returns impact_score 0 with grade MINIMAL.
C11_ScenarioD ==
    (pc = "impact" /\ IsScenarioD) =>
        /\ result.exc = "none"
        /\ result.impact_score = 0
        /\ result.impact_grade = "MINIMAL"

\* the weighted sum recomputed from the published (rounded) breakdown, in
\* the unit of the sub-scores
Recomputed(b) ==
    Composite(b.compliance_risk_reduction * (SCALE \div 10),
              b.profitability_gain * (SCALE \div 10),
              b.sustainability_improvement * (SCALE \div 10),
              b.time_saved * (SCALE \div 10),
              b.cost_saved * (SCALE \div 10))

Abs(x) == IF x < 0 THEN -x ELSE x

\* C13: the weighted sum recomputed from the published breakdown reproduces
\* the composite the engine computed before the regional scaling and the
\* clamp, here to within one unit of 1/SCALE (ten times the 1e-6 claimed).
C13_BreakdownRecomposes ==
    (pc = "impact" /\ result.exc = "none") =>
        Abs(Recomputed(result.breakdown) - result.composite) <= 1

\* every value of the three sub-reports is present (and none is negative)
NonNegativeInputs ==
    \A d \in {arg.risk_data, arg.sustainability_data, arg.profitability_data} :
        \A k \in DOMAIN d : d[k].t = "int" /\ d[k].n >= 0

\* a reported score in tenths lies in [0, 100]
InRange100(x) == 0 <= x /\ x <= 1000

\* C14: for non-negative sub-report values and num_policies >= 0 the five
\* breakdown dimensions and impact_score lie in [0, 100].
C14_BreakdownInRange ==
    (pc = "impact" /\ result.exc = "none" /\ NonNegativeInputs) =>
        /\ InRange100(result.breakdown.compliance_risk_reduction)
        /\ InRange100(result.breakdown.profitability_gain)
        /\ InRange100(result.breakdown.sustainability_improvement)
        /\ InRange100(result.breakdown.time_saved)
        /\ InRange100(result.breakdown.cost_saved)
        /\ InRange100(result.impact_score)


\* the entries of the projection the engine returned
Entry(y) == result.multi_year_projections[y]

\* the sum of the published discounted benefits of years 1..y
RECURSIVE DiscountedSum(_)
DiscountedSum(y) == IF y = 0 THEN 0 ELSE Entry(y).discounted_benefit_inr + DiscountedSum(y - 1)

\* the projection has one entry per year 1..5, in order
FiveYears ==
    /\ Len(result.multi_year_projections) = 5
    /\ \A y \in 1..5 : Entry(y).year = y

ReportScores == [i \in 1..Len(report.obligation_risks) |-> report.obligation_risks[i].weighted_score]

\* twice the weight the spec gives rank i: 2.0, 1.5, then 1.0
SpecRankWeight2(i) == IF i = 1 THEN 4 ELSE IF i = 2 THEN 3 ELSE 2

\* the scores are in non-increasing order
Descending(s) == \A i \in 1..(Len(s) - 1) : s[i] >= s[i + 1]

\* overall_score is the rank-weighted mean of the scores s, rounded to one
\* decimal: within half a tenth of it
IsRankWeightedMean(s) ==
    LET n == Len(s)
        W == SumOver([i \in 1..n |-> SpecRankWeight2(i)], n)
        T == SumOver([i \in 1..n |-> SpecRankWeight2(i) * s[i]], n)
    IN  /\ n = 0 => report.overall_score = 0
        /\ n = 1 => report.overall_score = s[1]
        /\ n >= 2 => 2 * Abs(report.overall_score * W - T) <= W

\* C15 as stated: overall_score is the rank-weighted mean of the scores sorted
\* descending (0 for none, the score itself for one), and so it is at least
\* the arithmetic mean of the scores and at most the highest score.
C15_OverallDominates ==
    Scored =>
        /\ Descending(ReportScores)
        /\ IsRankWeightedMean(ReportScores)
        /\ Len(ReportScores) >= 1 =>
               /\ Len(ReportScores) * report.overall_score
                      >= SumOver(ReportScores, Len(ReportScores))
               /\ report.overall_score <= ReportScores[1]

\* C15, amended: overall_score is the rank-weighted mean rounded to one
\* decimal; it is at most the highest score and less than 0.05 below the
\* arithmetic mean of the scores.
C15_OverallRounded ==
    Scored =>
        /\ Descending(ReportScores)
        /\ IsRankWeightedMean(ReportScores)
        /\ Len(ReportScores) >= 1 =>
               /\ 2 * (SumOver(ReportScores, Len(ReportScores))
                       - Len(ReportScores) * report.overall_score) < Len(ReportScores)
               /\ report.overall_score <= ReportScores[1]

\* three or more risks of different scores whose rounded overall score is
\* below their arithmetic mean
C15_BelowMean ==
    /\ Scored
    /\ Len(ReportScores) >= 3
    /\ ReportScores[1] > ReportScores[Len(ReportScores)]
    /\ Len(ReportScores) * report.overall_score < SumOver(ReportScores, Len(ReportScores))

\* C16: obligation_risks is in non-increasing order of weighted_score, real
\* and synthetic risks together; top_risks is its first min(3, n) entries;
\* no risk outside top_risks scores higher than one inside.
C16_SortedTopThree ==
    Scored =>
        LET risks == report.obligation_risks
            n == Len(report.obligation_risks)
        IN  /\ \A i \in 1..(n - 1) : risks[i].weighted_score >= risks[i + 1].weighted_score
            /\ Len(report.top_risks) = (IF n < 3 THEN n ELSE 3)
            /\ \A i \in 1..Len(report.top_risks) : report.top_risks[i] = risks[i]
            /\ \A i \in 1..n : \A j \in 1..Len(report.top_risks) :
                   i > Len(report.top_risks) =>
                       risks[i].weighted_score <= report.top_risks[j].weighted_score

\* a report of more than three risks, real and synthetic, that were not
\* scored in descending order and of which one is left out of top_risks
\* with a lower score
C16_FourMixed ==
    /\ Scored
    /\ Len(report.obligation_risks) > 3
    /\ RealRisks # <<>> /\ SyntheticRisks # <<>>
    /\ Len(analysis.obligations) >= 2
    /\ report.obligation_risks[1].obligation_name # analysis.obligations[1].obligation.s
    /\ report.obligation_risks[4].weighted_score < report.obligation_risks[3].weighted_score

\* the kinds of the lines of the report, in order
Lines == [i \in 1..Len(report.recommendations) |-> report.recommendations[i].line]

\* the position of a kind of line in the report, 0 if it is absent
LineAt(kind) ==
    IF \E i \in 1..Len(Lines) : Lines[i] = kind
    THEN CHOOSE i \in 1..Len(Lines) : Lines[i] = kind
    ELSE 0

SomeOverdue == \E i \in 1..Len(report.obligation_risks) : IsOverdue(report.obligation_risks[i])

SomeSoon == \E i \in 1..Len(report.obligation_risks) : IsSoon(report.obligation_risks[i])

SomeHighSeverity ==
    \E i \in 1..Len(report.obligation_risks) : IsHighSeverity(report.obligation_risks[i])

\* the four lines of the spec are present exactly when their condition holds
\* and each line appears once; overdue comes before due-soon, due-soon
\* before high-severity, and the best-practice line is last
FixedOrder ==
    /\ \A i, j \in 1..Len(Lines) : Lines[i] = Lines[j] => i = j
    /\ (LineAt("overdue") > 0) = SomeOverdue
    /\ (LineAt("soon") > 0) = SomeSoon
    /\ (LineAt("high_severity") > 0) = SomeHighSeverity
    /\ LineAt("calendar") = Len(Lines)
    /\ \A a, b \in {<<"overdue", "soon">>, <<"overdue", "high_severity">>,
                    <<"soon", "high_severity">>} :
           (LineAt(a[1]) > 0 /\ LineAt(a[2]) > 0) => LineAt(a[1]) < LineAt(a[2])

\* C17 as stated: the lines are in the fixed priority order, and the overdue
\* line, when there is one, is the first entry: no line precedes it.
C17_OverdueFirst ==
    Scored => (FixedOrder /\ (SomeOverdue => Lines[1] = "overdue"))

\* C17, amended: the lines are in the fixed priority order, and the only
\* line that can precede them is the URGENT line, which is the first entry
\* exactly when the overall band is CRITICAL or HIGH.
C17_UrgentThenFixedOrder ==
    Scored =>
        /\ FixedOrder
        /\ Range(Lines) \subseteq {"urgent", "overdue", "soon", "high_severity", "calendar"}
        /\ (LineAt("urgent") > 0) = (report.overall_band \in {"CRITICAL", "HIGH"})
        /\ LineAt("urgent") \in {0, 1}
        /\ SomeOverdue => LineAt("overdue") = (IF LineAt("urgent") = 1 THEN 2 ELSE 1)

\* a report with all five lines: the overdue line is second
C17_AllFiveLines ==
    /\ Scored
    /\ Lines = <<"urgent", "overdue", "soon", "high_severity", "calendar">>

\* the days of the risks whose days are known
KnownDays ==
    { i \in 1..Len(report.obligation_risks) : report.obligation_risks[i].days_remaining.known }

DaysOf(i) == report.obligation_risks[i].days_remaining.n

\* twice (2 x overdue + soon), to compare with 3 x total and with total
Urgency2 ==
    2 * (2 * Cardinality({i \in KnownDays : DaysOf(i) < 0})
         + Cardinality({i \in KnownDays : DaysOf(i) >= 0 /\ DaysOf(i) <= 30}))

\* C18: risk velocity is STABLE when no risk has known days; otherwise,
\* with ratio = (2 x overdue + soon) / total_known, it is ACCELERATING iff
\* ratio > 1.5, DECELERATING iff ratio < 0.5, and STABLE otherwise.
C18_RiskVelocity ==
    Scored =>
        /\ KnownDays = {} => report.risk_velocity = "STABLE"
        /\ KnownDays # {} =>
               /\ (report.risk_velocity = "ACCELERATING") = (Urgency2 > 3 * Cardinality(KnownDays))
               /\ (report.risk_velocity = "DECELERATING") = (Urgency2 < Cardinality(KnownDays))
               /\ report.risk_velocity \in {"ACCELERATING", "DECELERATING", "STABLE"}

\* a batch whose ratio is exactly 1.5 (one overdue, one due soon), with a
\* risk of unknown days beside them: STABLE
C18_RatioOnThreshold ==
    /\ Scored
    /\ Urgency2 = 3 * Cardinality(KnownDays)
    /\ KnownDays # {}
    /\ Cardinality(KnownDays) < Len(report.obligation_risks)
    /\ report.risk_velocity = "STABLE"


\* the ordered keyword list of the severity rules, first match wins
KeywordSeverity(text) ==
    IF ContainsAny({ <<"c","r","i","m","i","n","a","l">>, <<"i","m","p","r","i","s","o","n">>, <<"j","a","i","l">> }, text) THEN 100
    ELSE IF ContainsAny({ <<"s","u","s","p","e","n","d">>, <<"r","e","v","o","k","e">>, <<"c","a","n","c","e","l">> }, text) THEN 90
    ELSE IF ContainsAny({ <<"h","e","a","v","y">>, <<"l","a","k","h">>, <<"c","r","o","r","e">>, <<"s","i","g","n","i","f","i","c","a","n","t">> }, text) THEN 75
    ELSE IF ContainsAny({ <<"f","i","n","e">>, <<"p","e","n","a","l">> }, text) THEN 55
    ELSE IF ContainsAny({ <<"w","a","r","n">>, <<"n","o","t","i","c","e">> }, text) THEN 35
    ELSE 25

\* the severity text the scored obligation was given
SeverityText ==
    Lower(Get(analysis.obligations[1].severity_if_ignored, PyStr(<<"W","A","R","N","I","N","G">>)).s)

\* C19: for every severity text, the severity score is given by the first
\* matching rule of the ordered keyword list: criminal/imprison/jail -> 100;
\* suspend/revoke/cancel -> 90; heavy/lakh/crore/significant -> 75;
\* fine/penal -> 55; warn/notice -> 35; otherwise 25.  In particular a text
\* holding both a fine keyword and a warning keyword scores 55.
C19_KeywordOrder ==
    (Scored /\ Len(RealRisks) = 1) =>
        RealRisks[1].severity_score = KeywordSeverity(SeverityText)


Projected == pc = "projected"

\* the months of the search at which the cumulative benefit of a yearly
\* benefit of arg rupees has reached the cumulative subscription cost
BreakEvenCandidates ==
    {m \in 1..60 : m * arg >= m * PAIR_ANNUAL_SUBSCRIPTION}

ImmediateBreakEven == arg >= PAIR_ANNUAL_SUBSCRIPTION

C29_BreakEvenSound ==
    (Projected /\ result.break_even_months <= 60) =>
        result.break_even_months * arg
            >= result.break_even_months * PAIR_ANNUAL_SUBSCRIPTION


\* the state or location the business profile names, empty when it has none
NamedState == Get(profile.state, Get(profile.location, PyStr(<<>>))).s

\* C28: when the business profile is absent or has no state/location, the
\* regional multiplier resolved by _get_regional_multiplier and the region
\* resolved by ImpactEngine._resolve_region are the "default" entry
\* (multiplier 1.00); a named state's strictness is applied only when the
\* profile names that state.
C28_DefaultRegion ==
    (Scored /\ NamedState = <<>>) =>
        /\ report.regional_multiplier = 100
        /\ ResolveRegion(profile).val = 100


\* the band the thresholds of the scorer assign to a published score (tenths)
PublishedBand(score) == Band(scorer.w, score, 10)

\* C27: in every ComplianceRiskReport the published band agrees with the
\* published score: for each ObligationRisk (real or synthetic) risk_band is
\* the band the thresholds assign to its reported weighted_score, and
\* overall_band is the band the thresholds assign to the reported
\* overall_score.
C27_BandMatchesScore ==
    Scored =>
        /\ \A i \in 1..Len(report.obligation_risks) :
               report.obligation_risks[i].risk_band
                   = PublishedBand(report.obligation_risks[i].weighted_score)
        /\ report.overall_band = PublishedBand(report.overall_score)


\* the enforcement probability (hundredths) of the severity class that a
\* severity score stands for
ClassProbability(severity_score) ==
    CASE severity_score = 100 -> 90
      [] severity_score = 90 -> 80
      [] severity_score = 75 -> 70
      [] severity_score = 55 -> 55
      [] severity_score = 35 -> 30
      [] OTHER -> 40

\* the raw penalty in rupees matched to the scored obligation
RawPenaltyInr ==
    ExtractRawPenaltyInr(RealRisks[1].obligation_name,
                         BuildPenaltyMap(analysis.penalties).map)

\* C26: the enforcement probability used for expected_penalty follows the
\* severity class of the obligation: criminal -> 0.90, suspension -> 0.80,
\* heavy fine -> 0.70, fine/penalty -> 0.55, warning/notice -> 0.30,
\* otherwise 0.40; in particular every severity text that
\* _normalize_severity scores 90 gets probability 0.80.
C26_ProbabilityFollowsClass ==
    (Scored /\ Len(RealRisks) = 1) =>
        RealRisks[1].expected_penalty_inr
            = (RawPenaltyInr * ClassProbability(RealRisks[1].severity_score)) \div 100


\* the lower-cased names of the obligations of the request
ObligationNames ==
    { Lower(analysis.obligations[i].obligation.s) : i \in 1..Len(analysis.obligations) }

\* the actions of the request that carry the name of no obligation
Unmatched ==
    { k \in 1..Len(analysis.compliance_actions) :
        Lower(analysis.compliance_actions[k].action.s) \notin ObligationNames }

\* severity proxy 75, 45 or 20 for priority HIGH, MEDIUM or LOW, 45 otherwise
SeverityProxy(priority) ==
    CASE priority = PyStr(<<"H","I","G","H">>) -> 75
      [] priority = PyStr(<<"M","E","D","I","U","M">>) -> 45
      [] priority = PyStr(<<"L","O","W">>) -> 20
      [] OTHER -> 45

UnitMultiplier(suffix) ==
    CASE Lower(suffix) = <<" ","c","r","o","r","e">> -> 10000000
      [] Lower(suffix) = <<" ","l","a","k","h">> -> 100000
      [] Lower(suffix) = <<" ","t","h","o","u","s","a","n","d">> -> 1000
      [] OTHER -> 1

\* the parsed value is the number of the text times m
IsNumberTimes(parsed, m) ==
    /\ parsed.exc = "none"
    /\ parsed.num = Float(arg.number).num * m
    /\ parsed.den = Float(arg.number).den

\* C21: both amount parsers map an amount text made of an optional currency
\* prefix (Rs, Rs., the rupee sign), a decimal number and an optional unit to
\* number x 1e7 for crore, number x 1e5 for lakh, number x 1e3 for thousand,
\* and to the number itself when no unit word follows (a bare number followed
\* by an ordinary word is not multiplied); the two parsers return the same
\* value for the same text.
C21_AmountParsers ==
    pc = "parsed" =>
        /\ IsNumberTimes(result.penalty_amount, UnitMultiplier(arg.suffix))
        /\ IsNumberTimes(result.amount, UnitMultiplier(arg.suffix))
        /\ result.penalty_amount = result.amount


Rated == pc = "green"

TotalDocs == num_policies + arg

\* the sub-scores behind the reported green score
SubScores ==
    GreenSubScores(result.pages_saved,
                   NetCo2Saved(TotalDocs),
                   result.productivity_multiplier)

\* min(100, log2(n + 1) x 25) in 1/SCALE
ScaleBonus(n) ==
    IF n + 1 >= 16 THEN 100 * SCALE
    ELSE IF n = 0 THEN 0
    ELSE 25 * MathLog2(n + 1)

\* C25: for every processed-document count n >= 0 (policies plus schemes),
\* green score = 0.30 x paper_subscore + 0.30 x carbon_subscore + 0.25 x
\* efficiency_subscore + 0.15 x scale_bonus with scale_bonus = min(100,
\* log2(n+1) x 25), so that the scale bonus is 0 for n = 0, 25 for n = 1 and
\* 100 from n = 15 on, and the green score lies in [0, 100].
C25_GreenScore ==
    Rated =>
        /\ result.green_score
               = RoundScore((30 * SubScores.paper + 30 * SubScores.carbon
                                + 25 * SubScores.efficiency
                                + 15 * ScaleBonus(TotalDocs)) \div 100)
        /\ result.green_score \in 0..1000


\* a pipeline run is under way or over
InPipeline == pc \notin {"new", "main"}

\* the scoring engines have been run by one of their callers
EnginesRun ==
    \/ pc = "main"
    \/ InPipeline /\ \E i \in 1..Len(result.entered) : result.entered[i] = "scoring"

\* the slots the caller published, whichever caller it was
RiskPublished == IF pc = "main" THEN result.risk_score ELSE result.risk_report

SustainabilityPublished ==
    IF pc = "main" THEN result.sustainability ELSE result.sustainability_report

ProfitabilityPublished ==
    IF pc = "main" THEN result.profitability ELSE result.profitability_report

\* the number of schemes the caller hands to the sustainability engine
SchemesCounted ==
    IF pc = "main" THEN Len(analysis.compliance_actions) ELSE result.eligible_schemes

\* a slot is isolated when it holds the genuine score of its engine, or an
\* error marker if that engine raised
Isolated(slot, exc, value) ==
    IF exc # "none" THEN slot.error # "none"
    ELSE slot = Slot("none", FALSE, value)

\* C22: in both callers of the engines (Orchestrator._run_scoring_engines and
\* step 3 of the analysis in main.py), when one engine raises the others are
\* still run and their genuine reports stored, the failing engine's slot holds
\* an error marker, and the pipeline does not enter the ERROR state because
\* of it.
C22_FailuresIsolated ==
    /\ EnginesRun =>
         /\ Isolated(RiskPublished,
                     Score(config, analysis, NoProfile, now).exc,
                     Score(config, analysis, NoProfile, now).overall_score)
         /\ Isolated(SustainabilityPublished,
                     SdgAlignmentExc(profile),
                     SustainabilityCalculate(1, SchemesCounted).green_score)
         /\ Isolated(ProfitabilityPublished,
                     Analyze(analysis, profile, 1, now).exc,
                     Analyze(analysis, profile, 1, now).total_roi_inr)
    /\ (InPipeline /\ result.state = "error") =>
         result.entered[Len(result.entered)] # "scoring"

\* C30: run_pipeline enters its stages in the fixed order ingestion, reasoning,
\* planning, scoring, execution, verification, explanation, and the confidence
\* score the ethics evaluation of the scoring stage takes from
\* verification_result is the one the verification agent of that run produced.
C30_StagesReadWritten ==
    /\ InPipeline =>
         /\ Len(result.entered) <= Len(Stages)
         /\ \A i \in 1..Len(result.entered) : result.entered[i] = Stages[i]
    /\ pc = "complete" =>
         /\ result.ethics_confidence = arg.confidence
         /\ result.ethics_level = AssessConfidence(arg.confidence)


\* every caller has returned from score()
AllReturned == pc = "threads" /\ \A c \in Callers : result[c].at = "done"

=============================================================================
